---- MODULE Spec2Model ----
(***************************************************************************)
(* Model of src/components/pages/Aqi.tsx: the AqiAdvanced dashboard        *)
(* component, its favorites list persisted under STORAGE_KEY, the          *)
(* getHealthAdvice classifier and the getCigaretteEquivalent estimator.    *)
(*                                                                         *)
(* Text (JavaScript strings, the stored item) is a sequence of UTF-16 code  *)
(* units, so that JSON.stringify and JSON.parse are computed character by  *)
(* character.  A code unit is the one-character string of its character    *)
(* where TLA+ can write one (printable ASCII but the backquote, and \t,    *)
(* \n, \f, \r) and else "u" followed by its four lower-case hexadecimal    *)
(* digits: "u0008" is the backspace, "u00a0" the no-break space.           *)
(*                                                                         *)
(* JavaScript values are records of one shape, told apart by their kind.   *)
(* A number is the decimal num / 10^scale, the last of its scale digits    *)
(* not 0, or of kind "nan" or "infinity" (num is the sign).  The decimals  *)
(* are those whose digits are an integer TLC computes with: a double holds *)
(* and prints them unchanged but for the least doubles, where a numeral is *)
(* rounded to a multiple of 2^-1074 (MakeNumber).  An array or object that *)
(* the component holds in more than one place carries in ref the number of *)
(* the object it is; ref is 0 elsewhere.  A conversion (String, Number)    *)
(* that throws gives the record of kind "throw" in place of a value.       *)
(***************************************************************************)
EXTENDS Integers, Sequences, FiniteSets, TLC

(***************************************************************************)
(* JavaScript values                                                       *)
(***************************************************************************)
JVal(k, n, t, it, ks) ==
    [kind |-> k, num |-> n, scale |-> 0, text |-> t, items |-> it, keys |-> ks,
     ref |-> 0]

JNull == JVal("null", 0, <<>>, <<>>, <<>>)

JUndefined == JVal("undefined", 0, <<>>, <<>>, <<>>)

JNaN == JVal("nan", 0, <<>>, <<>>, <<>>)

JBool(b) == JVal(IF b THEN "true" ELSE "false", 0, <<>>, <<>>, <<>>)

JNum(n) == JVal("number", n, <<>>, <<>>, <<>>)

RECURSIVE JDec(_, _)
\* The number n / 10^s.
JDec(n, s) ==
    IF s > 0 /\ n % 10 = 0 THEN JDec(n \div 10, s - 1)
    ELSE [JNum(n) EXCEPT !.scale = s]

\* Infinity (sign 1) and -Infinity (sign -1).
JInf(sign) == JVal("infinity", sign, <<>>, <<>>, <<>>)

JStr(t) == JVal("string", 0, t, <<>>, <<>>)

JArr(it) == JVal("array", 0, <<>>, it, <<>>)

IsArray(v) == v.kind = "array"

IsString(v) == v.kind = "string"

\* Array and object values are references; every other kind is a primitive.
IsPrimitive(v) == v.kind \notin {"array", "object"}

\* x === y for two values that are not the same reference: primitives
\* compare by value (NaN equals nothing), distinct references never match.
StrictEquals(x, y) ==
    /\ IsPrimitive(x) /\ IsPrimitive(y)
    /\ x.kind # "nan"
    /\ x = y

\* SameValueZero(x, y) for two values that are not the same reference: as
\* x === y, but NaN equals NaN.
SameValueZero(x, y) ==
    /\ IsPrimitive(x) /\ IsPrimitive(y)
    /\ x = y

\* Boolean(v): the falsy values are "", 0, NaN, null, undefined and false.
Truthy(v) ==
    CASE v.kind \in {"null", "undefined", "nan", "false"} -> FALSE
      [] v.kind = "number" -> v.num # 0
      [] v.kind = "string" -> v.text # <<>>
      [] OTHER -> TRUE

(***************************************************************************)
(* Characters and decimal numerals                                         *)
(***************************************************************************)
QUOTE == "\""

BACKSLASH == "\\"

DigitChars == <<"0", "1", "2", "3", "4", "5", "6", "7", "8", "9">>

IsDigit(c) == \E d \in 1..10 : DigitChars[d] = c

DigitValue(c) == (CHOOSE d \in 1..10 : DigitChars[d] = c) - 1

(***************************************************************************)
(* Objects: the keys of an object are kept in property order, the array    *)
(* indices (the canonical numerals up to 2^32 - 2) ascending before the    *)
(* other keys in the order of their creation.                              *)
(***************************************************************************)
\* Whether the digits a come before the digits b, as numerals or as texts
\* of one length.
DigitsBefore(a, b) ==
    \/ Len(a) < Len(b)
    \/ /\ Len(a) = Len(b)
       /\ \E j \in 1..Len(a) :
             /\ \A i \in 1..(j - 1) : a[i] = b[i]
             /\ DigitValue(a[j]) < DigitValue(b[j])

IsIndexKey(k) ==
    /\ k # <<>>
    /\ \A j \in 1..Len(k) : IsDigit(k[j])
    /\ k[1] = "0" => Len(k) = 1
    /\ DigitsBefore(k, <<"4", "2", "9", "4", "9", "6", "7", "2", "9", "5">>)

RECURSIVE PropertyOrder(_, _)
\* The positions S of the keys ks in property order.
PropertyOrder(ks, S) ==
    IF S = {} THEN <<>>
    ELSE LET first == CHOOSE p \in S : \A q \in S \ {p} :
                         IF IsIndexKey(ks[p]) /\ IsIndexKey(ks[q])
                         THEN DigitsBefore(ks[p], ks[q])
                         ELSE IF IsIndexKey(ks[p]) = IsIndexKey(ks[q]) THEN p < q
                         ELSE IsIndexKey(ks[p])
         IN  <<first>> \o PropertyOrder(ks, S \ {first})

\* The object with the properties ks, of distinct keys, and their values it.
JObj(ks, it) ==
    LET order == PropertyOrder(ks, 1..Len(ks))
    IN  JVal("object", 0, <<>>, [j \in 1..Len(ks) |-> it[order[j]]],
             [j \in 1..Len(ks) |-> ks[order[j]]])

\* The white space of the JSON grammar.
IsSpace(c) == c \in {" ", "\t", "\n", "\r"}

HexChars ==
    <<"0", "1", "2", "3", "4", "5", "6", "7", "8", "9", "a", "b", "c", "d",
      "e", "f">>

\* The four hexadecimal digits of code unit n.
Hex4(n) ==
    <<HexChars[(n \div 4096) + 1], HexChars[((n \div 256) % 16) + 1],
      HexChars[((n \div 16) % 16) + 1], HexChars[(n % 16) + 1]>>

IsHex(c) == IsDigit(c) \/ c \in {"a", "b", "c", "d", "e", "f", "A", "B", "C", "D", "E", "F"}

HexValue(c) ==
    LET upper == <<"A", "B", "C", "D", "E", "F">>
    IN  IF IsDigit(c) THEN DigitValue(c)
        ELSE 9 + (CHOOSE d \in 1..6 : HexChars[10 + d] = c \/ upper[d] = c)

\* The characters of the code units 32..126, in order (TLA+ can not write
\* the backquote).
Ascii ==
    <<" ", "!", "\"", "#", "$", "%", "&", "'", "(", ")", "*", "+", ",", "-",
      ".", "/", "0", "1", "2", "3", "4", "5", "6", "7", "8", "9", ":", ";",
      "<", "=", ">", "?", "@", "A", "B", "C", "D", "E", "F", "G", "H", "I",
      "J", "K", "L", "M", "N", "O", "P", "Q", "R", "S", "T", "U", "V", "W",
      "X", "Y", "Z", "[", "\\", "]", "^", "_", "u0060", "a", "b", "c", "d", "e",
      "f", "g", "h", "i", "j", "k", "l", "m", "n", "o", "p", "q", "r", "s",
      "t", "u", "v", "w", "x", "y", "z", "{", "|", "}", "~">>

\* String.fromCharCode(n): the code unit n as the model writes it.
CharOf(n) ==
    CASE n \in 32..126 -> Ascii[n - 31]
      [] n = 9 -> "\t"
      [] n = 10 -> "\n"
      [] n = 12 -> "\f"
      [] n = 13 -> "\r"
      [] OTHER -> LET h == Hex4(n) IN "u" \o h[1] \o h[2] \o h[3] \o h[4]

\* The number of a code unit written "u" and four hexadecimal digits.
UnitCode(c) ==
    HexValue(SubSeq(c, 2, 2)) * 4096 + HexValue(SubSeq(c, 3, 3)) * 256
      + HexValue(SubSeq(c, 4, 4)) * 16 + HexValue(SubSeq(c, 5, 5))

\* A control character: a code unit below 32.
IsControl(c) ==
    \/ c \in {"\t", "\n", "\f", "\r"}
    \/ Len(c) = 5 /\ UnitCode(c) < 32

\* The first and the second half of a surrogate pair.
IsHighSurrogate(c) == Len(c) = 5 /\ UnitCode(c) \in 55296..56319

IsLowSurrogate(c) == Len(c) = 5 /\ UnitCode(c) \in 56320..57343

\* WhiteSpace and LineTerminator of ECMAScript, which String.prototype.trim
\* strips and Number(text) ignores around a numeral.
IsWhiteSpace(c) ==
    \/ c \in {" ", "\t", "\n", "\f", "\r"}
    \/ /\ Len(c) = 5
       /\ UnitCode(c) \in {11, 160, 5760, 8232, 8233, 8239, 8287, 12288, 65279}
                             \cup (8192..8202)

RECURSIVE NatToText(_)
NatToText(n) ==
    IF n < 10 THEN <<DigitChars[n + 1]>>
    ELSE NatToText(n \div 10) \o <<DigitChars[(n % 10) + 1]>>

\* String(n) for an integer n.
NumberToText(n) == IF n < 0 THEN <<"-">> \o NatToText(0 - n) ELSE NatToText(n)

RECURSIVE Pow10(_)
Pow10(n) == IF n = 0 THEN 1 ELSE 10 * Pow10(n - 1)

\* Number::toString of the decimal v.num / 10^v.scale.  With the k digits
\* of num and n = k - scale the position of the point: the digits around
\* the point for 0 < n, "0." and -n zeros before the digits for -6 < n <= 0,
\* and the exponent form from 1e-7 down.
DecimalToText(v) ==
    LET d == NatToText(IF v.num < 0 THEN 0 - v.num ELSE v.num)
        k == Len(d)
        n == k - v.scale
        sign == IF v.num < 0 THEN <<"-">> ELSE <<>>
    IN  IF v.scale = 0 THEN NumberToText(v.num)
        ELSE IF n > 0 THEN sign \o SubSeq(d, 1, n) \o <<".">> \o SubSeq(d, n + 1, k)
        ELSE IF n > 0 - 6
             THEN sign \o <<"0", ".">> \o [j \in 1..(0 - n) |-> "0"] \o d
        ELSE sign \o <<d[1]>> \o (IF k > 1 THEN <<".">> \o Tail(d) ELSE <<>>)
                  \o <<"e", "-">> \o NatToText(1 - n)

\* The least doubles are the multiples of 2^-1074, and a decimal is read as
\* the nearest of them.  In units of 1e-324 half that step, 2^-1075, is
\* 2.4703282292062327208828439643...: HalfStep holds the digits after the
\* point, four to a limb.
HalfStep == <<4703, 2822, 9206, 2327, 2088, 2843, 9643>>

RECURSIVE Carry(_, _)
\* The whole part of x * 0.d, d the digits of HalfStep from limb i on.
Carry(x, i) ==
    IF i > Len(HalfStep) THEN 0
    ELSE (x \div 10000) * HalfStep[i]
           + ((x % 10000) * HalfStep[i] + Carry(x, i + 1)) \div 10000

\* The whole part of x * 2^-1075, in units of 1e-324.
HalfSteps(x) == 2 * x + Carry(x, 1)

RECURSIVE StepsOf(_, _, _, _)
\* The double nearest to m / 10^j units of 1e-324, as its number of steps
\* of 2^-1074: the greatest n of lo..hi with (2n - 1) * 2^-1075 below the
\* value (no decimal of the model lies on such a bound).
StepsOf(m, j, lo, hi) ==
    LET Below(x) == Carry(x, 1) < m - 2 * x
        Halve(mid) ==
            IF Below((2 * mid - 1) * Pow10(j)) THEN StepsOf(m, j, mid, hi)
            ELSE StepsOf(m, j, lo, mid - 1)
    IN  IF lo = hi THEN lo ELSE Halve((lo + hi + 1) \div 2)

RECURSIVE ShortestIn(_, _, _, _)
\* Of the whole numbers low..high the one with the fewest digits that are
\* not trailing zeros: the multiple of the greatest power 10^p, and for
\* p = 0 the number near.
ShortestIn(low, high, near, p) ==
    IF p = 0 THEN near
    ELSE IF (high \div Pow10(p)) * Pow10(p) >= low
         THEN (high \div Pow10(p)) * Pow10(p)
    ELSE ShortestIn(low, high, near, p - 1)

\* The decimal that stands for the double of n steps of 2^-1074, in units
\* of 1e-324, as Number::toString prints it: of the decimals that are
\* nearer to this double than to its neighbours the one of the fewest
\* digits, and of several the nearest.
Shortest(n) ==
    ShortestIn(HalfSteps(2 * n - 1) + 1, HalfSteps(2 * n + 1),
               HalfSteps(2 * n)
                 + (IF (((2 * n) % 10000) * HalfStep[1] + Carry(2 * n, 2)) % 10000
                         >= 5000
                    THEN 1 ELSE 0),
               9)

\* The number sign * m * 10^e10 as a double holds it: Infinity from 2^1024
\* (1.797693134862...e308) on; a decimal with digits below 1e-323 is the
\* nearest multiple of 2^-1074, which is 0 below 2^-1075 (2.47e-324); any
\* other decimal of the model is held and printed unchanged.
MakeNumber(sign, m, e10) ==
    LET k == Len(NatToText(m))
        lead == IF k = 10 THEN m \div 10 ELSE m * Pow10(9 - k)
        Printed(n) == IF n = 0 THEN JNum(0) ELSE JDec(sign * Shortest(n), 324)
        Least(v) ==
            IF v.scale < 324 THEN v
            ELSE Printed(StepsOf(sign * v.num, v.scale - 324, 0,
                                 ((sign * v.num) \div (2 * Pow10(v.scale - 324)) + 1)
                                    \div 2))
    IN  IF m = 0 THEN JNum(0)
        ELSE IF \/ k + e10 > 309
                \/ /\ k + e10 = 309
                   /\ \/ lead > 179769313
                      \/ k = 10 /\ lead = 179769313 /\ m % 10 >= 5
             THEN JInf(sign)
        ELSE IF k + e10 < 0 - 323 THEN JNum(0)
        ELSE IF e10 >= 0 THEN JNum(sign * m * Pow10(e10))
        ELSE Least(JDec(sign * m, 0 - e10))

(***************************************************************************)
(* JSON.stringify                                                          *)
(***************************************************************************)
\* QuoteJSONString on one code unit that is no half of a surrogate pair: the
\* quote, the backslash and the control characters are escaped, and so is a
\* lone surrogate.
EscapeChar(c) ==
    CASE c = QUOTE -> <<BACKSLASH, QUOTE>>
      [] c = BACKSLASH -> <<BACKSLASH, BACKSLASH>>
      [] c = "\n" -> <<BACKSLASH, "n">>
      [] c = "\t" -> <<BACKSLASH, "t">>
      [] c = "\r" -> <<BACKSLASH, "r">>
      [] c = "\f" -> <<BACKSLASH, "f">>
      [] c = CharOf(8) -> <<BACKSLASH, "b">>
      [] Len(c) = 5 /\ (IsControl(c) \/ IsHighSurrogate(c) \/ IsLowSurrogate(c)) ->
            <<BACKSLASH, "u">> \o Hex4(UnitCode(c))
      [] OTHER -> <<c>>

RECURSIVE EscapeText(_)
\* A surrogate pair is written as it is.
EscapeText(t) ==
    IF t = <<>> THEN <<>>
    ELSE IF Len(t) >= 2 /\ IsHighSurrogate(t[1]) /\ IsLowSurrogate(t[2])
         THEN <<t[1], t[2]>> \o EscapeText(Tail(Tail(t)))
    ELSE EscapeChar(Head(t)) \o EscapeText(Tail(t))

QuoteText(t) == <<QUOTE>> \o EscapeText(t) \o <<QUOTE>>

RECURSIVE JSONStringify(_), StringifyItems(_), StringifyMembers(_, _)
\* JSON.stringify(v) for a value that is not undefined.  Inside an array
\* undefined is written as null; NaN and the infinities are null.
JSONStringify(v) ==
    CASE v.kind = "null" -> <<"n", "u", "l", "l">>
      [] v.kind = "undefined" -> <<"n", "u", "l", "l">>
      [] v.kind = "nan" -> <<"n", "u", "l", "l">>
      [] v.kind = "infinity" -> <<"n", "u", "l", "l">>
      [] v.kind = "true" -> <<"t", "r", "u", "e">>
      [] v.kind = "false" -> <<"f", "a", "l", "s", "e">>
      [] v.kind = "number" -> DecimalToText(v)
      [] v.kind = "string" -> QuoteText(v.text)
      [] v.kind = "array" -> <<"[">> \o StringifyItems(v.items) \o <<"]">>
      [] v.kind = "object" ->
            <<"{">> \o StringifyMembers(v.keys, v.items) \o <<"}">>

StringifyItems(it) ==
    IF it = <<>> THEN <<>>
    ELSE IF Len(it) = 1 THEN JSONStringify(it[1])
    ELSE JSONStringify(it[1]) \o <<",">> \o StringifyItems(Tail(it))

\* The members of an object of keys ks and values it, in property order; a
\* member whose value is undefined is left out.
StringifyMembers(ks, it) ==
    LET order == PropertyOrder(ks, {p \in 1..Len(ks) : it[p].kind # "undefined"})
        first == order[1]
        m == QuoteText(ks[first]) \o <<":">> \o JSONStringify(it[first])
    IN  IF order = <<>> THEN <<>>
        ELSE IF Len(order) = 1 THEN m
        ELSE m \o <<",">>
               \o StringifyMembers([j \in 1..(Len(order) - 1) |-> ks[order[j + 1]]],
                                   [j \in 1..(Len(order) - 1) |-> it[order[j + 1]]])

(***************************************************************************)
(* JSON.parse: a recursive-descent parser of the JSON grammar.  Every       *)
(* parse step returns [ok, val, next]: whether it succeeded, the value,    *)
(* and the index of the first character not consumed.                      *)
(***************************************************************************)
ParseFail == [ok |-> FALSE, val |-> JUndefined, next |-> 0]

ParseOk(v, n) == [ok |-> TRUE, val |-> v, next |-> n]

RECURSIVE SkipSpace(_, _)
SkipSpace(t, i) ==
    IF i <= Len(t) /\ IsSpace(t[i]) THEN SkipSpace(t, i + 1) ELSE i

\* Whether text t holds the characters of word w from index i on.
HasWord(t, i, w) ==
    /\ i + Len(w) - 1 <= Len(t)
    /\ \A j \in 1..Len(w) : t[i + j - 1] = w[j]

RECURSIVE ParseDigits(_, _, _)
\* The digits from index i on, added to the number acc read so far.
ParseDigits(t, i, acc) ==
    IF i <= Len(t) /\ IsDigit(t[i])
    THEN ParseDigits(t, i + 1, acc * 10 + DigitValue(t[i]))
    ELSE ParseOk(JNum(acc), i)

\* The fraction and the exponent that follow the digits int of a numeral
\* on text t: "." and digits (none allowed where bare), then "e" or "E", a
\* sign and digits.  The result is [ok, val, next], val the number of sign.
ParseTail(t, int, sign, bare) ==
    LET dot == int.next <= Len(t) /\ t[int.next] = "."
        Exponent(frac) ==
            LET places == IF dot THEN frac.next - (int.next + 1) ELSE 0
                e == frac.next
                hasExp == e <= Len(t) /\ t[e] \in {"e", "E"}
                signed == hasExp /\ e + 1 <= Len(t) /\ t[e + 1] \in {"+", "-"}
                from == IF signed THEN e + 2 ELSE e + 1
                Value(exp) ==
                    IF dot /\ places = 0 /\ ~bare THEN ParseFail
                    ELSE IF hasExp /\ exp.next = from THEN ParseFail
                    ELSE ParseOk(MakeNumber(sign, frac.val.num,
                                            (IF signed /\ t[e + 1] = "-"
                                             THEN 0 - exp.val.num
                                             ELSE exp.val.num) - places),
                                 exp.next)
            IN  Value(IF hasExp THEN ParseDigits(t, from, 0) ELSE ParseOk(JNum(0), e))
    IN  Exponent(IF dot THEN ParseDigits(t, int.next + 1, int.val.num) ELSE int)

\* A JSON numeral: an optional "-", then "0" or digits that do not start
\* with "0", then an optional fraction and an optional exponent.
ParseNumber(t, i) ==
    LET neg == i <= Len(t) /\ t[i] = "-"
        s == IF neg THEN i + 1 ELSE i
    IN  IF ~(s <= Len(t) /\ IsDigit(t[s])) THEN ParseFail
        ELSE LET r == IF t[s] = "0" THEN ParseOk(JNum(0), s + 1)
                      ELSE ParseDigits(t, s, 0)
             IN  IF r.next <= Len(t) /\ IsDigit(t[r.next]) THEN ParseFail
                 ELSE ParseTail(t, r, IF neg THEN 0 - 1 ELSE 1, FALSE)

\* The character the escape \c stands for.
Unescape(c) ==
    CASE c = "n" -> "\n"
      [] c = "t" -> "\t"
      [] c = "r" -> "\r"
      [] c = "f" -> "\f"
      [] c = "b" -> CharOf(8)
      [] OTHER -> c

RECURSIVE ParseStringBody(_, _, _)
\* The characters of a string literal from index i (after its opening quote)
\* up to its closing quote, appended to acc.  A control character must be
\* escaped; the escapes are \" \\ \/ \b \f \n \r \t and \u with four
\* hexadecimal digits.
ParseStringBody(t, i, acc) ==
    IF i > Len(t) THEN ParseFail
    ELSE IF t[i] = QUOTE THEN ParseOk(JStr(acc), i + 1)
    ELSE IF IsControl(t[i]) THEN ParseFail
    ELSE IF t[i] = BACKSLASH
         THEN IF i + 1 <= Len(t)
                 /\ t[i + 1] \in {QUOTE, BACKSLASH, "/", "b", "f", "n", "r", "t"}
              THEN ParseStringBody(t, i + 2, Append(acc, Unescape(t[i + 1])))
              ELSE IF i + 5 <= Len(t) /\ t[i + 1] = "u"
                      /\ \A j \in 2..5 : IsHex(t[i + j])
              THEN ParseStringBody(t, i + 6,
                      Append(acc, CharOf(HexValue(t[i + 2]) * 4096
                                         + HexValue(t[i + 3]) * 256
                                         + HexValue(t[i + 4]) * 16
                                         + HexValue(t[i + 5]))))
              ELSE ParseFail
    ELSE ParseStringBody(t, i + 1, Append(acc, t[i]))

RECURSIVE ParseValue(_, _), ParseElements(_, _, _), ParseMembers(_, _, _, _)
\* The value that starts at index i (leading white space already skipped).
ParseValue(t, i) ==
    IF i > Len(t) THEN ParseFail
    ELSE CASE t[i] = "[" ->
                LET j == SkipSpace(t, i + 1)
                IN  IF j <= Len(t) /\ t[j] = "]" THEN ParseOk(JArr(<<>>), j + 1)
                    ELSE ParseElements(t, j, <<>>)
           [] t[i] = "{" ->
                LET j == SkipSpace(t, i + 1)
                IN  IF j <= Len(t) /\ t[j] = "}"
                    THEN ParseOk(JObj(<<>>, <<>>), j + 1)
                    ELSE ParseMembers(t, j, <<>>, <<>>)
           [] t[i] = QUOTE -> ParseStringBody(t, i + 1, <<>>)
           [] t[i] = "n" ->
                IF HasWord(t, i, <<"n", "u", "l", "l">>)
                THEN ParseOk(JNull, i + 4) ELSE ParseFail
           [] t[i] = "t" ->
                IF HasWord(t, i, <<"t", "r", "u", "e">>)
                THEN ParseOk(JBool(TRUE), i + 4) ELSE ParseFail
           [] t[i] = "f" ->
                IF HasWord(t, i, <<"f", "a", "l", "s", "e">>)
                THEN ParseOk(JBool(FALSE), i + 5) ELSE ParseFail
           [] OTHER -> ParseNumber(t, i)

\* The elements of an array from index i on, after the items read so far.
ParseElements(t, i, acc) ==
    LET r == ParseValue(t, i)
    IN  IF ~r.ok THEN ParseFail
        ELSE LET j == SkipSpace(t, r.next)
                 now == Append(acc, r.val)
             IN  IF j > Len(t) THEN ParseFail
                 ELSE IF t[j] = "]" THEN ParseOk(JArr(now), j + 1)
                 ELSE IF t[j] = ","
                      THEN ParseElements(t, SkipSpace(t, j + 1), now)
                 ELSE ParseFail

\* The members of an object from index i on.  A repeated key keeps its
\* first position and takes the last value.
ParseMembers(t, i, ks, vs) ==
    IF ~(i <= Len(t) /\ t[i] = QUOTE) THEN ParseFail
    ELSE LET k == ParseStringBody(t, i + 1, <<>>)
         IN  IF ~k.ok THEN ParseFail
             ELSE LET c == SkipSpace(t, k.next)
                  IN  IF ~(c <= Len(t) /\ t[c] = ":") THEN ParseFail
                      ELSE LET r == ParseValue(t, SkipSpace(t, c + 1))
                           IN  IF ~r.ok THEN ParseFail
                               ELSE LET j == SkipSpace(t, r.next)
                                        old == {p \in 1..Len(ks) : ks[p] = k.val.text}
                                        nks == IF old = {} THEN Append(ks, k.val.text)
                                               ELSE ks
                                        nvs == IF old = {} THEN Append(vs, r.val)
                                               ELSE [vs EXCEPT ![CHOOSE p \in old : TRUE] = r.val]
                                    IN  IF j > Len(t) THEN ParseFail
                                        ELSE IF t[j] = "}"
                                             THEN ParseOk(JObj(nks, nvs), j + 1)
                                        ELSE IF t[j] = ","
                                             THEN ParseMembers(t, SkipSpace(t, j + 1), nks, nvs)
                                        ELSE ParseFail

\* JSON.parse(t): [ok, val]; ok is FALSE where JSON.parse throws SyntaxError.
JSONParse(t) ==
    LET r == ParseValue(t, SkipSpace(t, 1))
    IN  IF r.ok /\ SkipSpace(t, r.next) = Len(t) + 1
        THEN [ok |-> TRUE, val |-> r.val]
        ELSE [ok |-> FALSE, val |-> JUndefined]

(***************************************************************************)
(* Number(v) and String(v)                                                 *)
(***************************************************************************)
RECURSIVE TrimLeft(_), TrimRight(_)
TrimLeft(t) ==
    IF t # <<>> /\ IsWhiteSpace(Head(t)) THEN TrimLeft(Tail(t)) ELSE t

TrimRight(t) ==
    IF t # <<>> /\ IsWhiteSpace(t[Len(t)])
    THEN TrimRight(SubSeq(t, 1, Len(t) - 1))
    ELSE t

\* String.prototype.trim
Trim(t) == TrimRight(TrimLeft(t))

RECURSIVE RadixValue(_, _, _, _)
\* The digits of t from index i on, in the given radix, added to acc.
RadixValue(t, i, radix, acc) ==
    IF i > Len(t) THEN acc
    ELSE RadixValue(t, i + 1, radix, acc * radix + HexValue(t[i]))

tInfinity == <<"I", "n", "f", "i", "n", "i", "t", "y">>

\* Number(t) for a text t, the StringNumericLiteral grammar: white space is
\* trimmed; the empty text is 0; an unsigned 0x, 0o or 0b numeral is its
\* value; an optionally signed Infinity or decimal numeral (digits, a "."
\* with digits on one side at least, an exponent) is its value; anything
\* else is NaN.
StringToNumber(t) ==
    LET Whole(d, num) == IF ~num.ok \/ num.next # Len(d) + 1 THEN JNaN ELSE num.val
        Decimal(d, sign, int) ==
            IF d = tInfinity THEN JInf(sign)
            ELSE IF int.next = 1 /\ (d = <<>> \/ d[1] # ".") THEN JNaN
            ELSE Whole(d, ParseTail(d, int, sign, int.next > 1))
        Literal(s) ==
            LET signed == s # <<>> /\ s[1] \in {"-", "+"}
                sign == IF signed /\ s[1] = "-" THEN 0 - 1 ELSE 1
                d == IF signed THEN Tail(s) ELSE s
                radix == IF Len(s) > 2 /\ s[1] = "0"
                         THEN CASE s[2] \in {"x", "X"} -> 16
                                [] s[2] \in {"o", "O"} -> 8
                                [] s[2] \in {"b", "B"} -> 2
                                [] OTHER -> 0
                         ELSE 0
            IN  IF s = <<>> THEN JNum(0)
                ELSE IF radix # 0
                     THEN IF \A j \in 3..Len(s) : IsHex(s[j]) /\ HexValue(s[j]) < radix
                          THEN JNum(RadixValue(s, 3, radix, 0))
                          ELSE JNaN
                ELSE Decimal(d, sign, ParseDigits(d, 1, 0))
    IN  Literal(Trim(t))

\* String(v) for a primitive v.
PrimitiveToText(v) ==
    CASE v.kind = "string" -> v.text
      [] v.kind = "number" -> DecimalToText(v)
      [] v.kind = "infinity" ->
            IF v.num < 0 THEN <<"-">> \o tInfinity ELSE tInfinity
      [] v.kind = "null" -> <<"n", "u", "l", "l">>
      [] v.kind = "undefined" -> <<"u", "n", "d", "e", "f", "i", "n", "e", "d">>
      [] v.kind = "nan" -> <<"N", "a", "N">>
      [] v.kind = "true" -> <<"t", "r", "u", "e">>
      [] v.kind = "false" -> <<"f", "a", "l", "s", "e">>

\* What a conversion that throws TypeError gives in place of a value.
JThrow == JVal("throw", 0, <<>>, <<>>, <<>>)

kToString == <<"t", "o", "S", "t", "r", "i", "n", "g">>

RECURSIVE ToText(_), JoinItems(_)
\* String(v): the string, or JThrow.  An array is its join(",").  An object
\* of the provider's JSON is "[object Object]", the result of the toString
\* it inherits; with a member "toString" of its own, which no JSON value
\* makes callable, it has no method that gives a primitive (the valueOf it
\* inherits gives the object, one of its own is not callable either) and
\* the conversion throws.
ToText(v) ==
    CASE v.kind = "array" -> JoinItems(v.items)
      [] v.kind = "object" ->
            IF \E p \in 1..Len(v.keys) : v.keys[p] = kToString THEN JThrow
            ELSE JStr(<<"[", "o", "b", "j", "e", "c", "t", " ",
                        "O", "b", "j", "e", "c", "t", "]">>)
      [] OTHER -> JStr(PrimitiveToText(v))

\* items.join(","): the string, or JThrow where the conversion of an item
\* throws; null and undefined items are the empty text.
JoinItems(it) ==
    LET Glue(head, rest) ==
            IF head.kind = "throw" \/ rest.kind = "throw" THEN JThrow
            ELSE IF Len(it) = 1 THEN head
            ELSE JStr(head.text \o <<",">> \o rest.text)
    IN  IF it = <<>> THEN JStr(<<>>)
        ELSE Glue(IF it[1].kind \in {"null", "undefined"} THEN JStr(<<>>)
                  ELSE ToText(it[1]),
                  JoinItems(Tail(it)))

\* Number(v): the number, or JThrow.  An array and an object convert
\* through the primitive their String(v) is, and throw where that throws.
ToNumber(v) ==
    LET Read(t) == IF t.kind = "throw" THEN JThrow ELSE StringToNumber(t.text)
    IN  CASE v.kind \in {"number", "nan", "infinity"} -> v
          [] v.kind = "undefined" -> JNaN
          [] v.kind = "null" -> JNum(0)
          [] v.kind = "true" -> JNum(1)
          [] v.kind = "false" -> JNum(0)
          [] OTHER -> Read(ToText(v))

\* The least integer not below num / 10^scale; past nine places the
\* decimal lies between -1 and 1.
Ceiling(num, scale) ==
    IF scale > 9 THEN (IF num > 0 THEN 1 ELSE 0)
    ELSE 0 - ((0 - num) \div Pow10(scale))

\* x <= n for an integer n and the index x, a number or null: x is
\* converted with Number(x), and NaN is not below or equal to anything.
LessEq(x, n) ==
    LET Below(v) ==
            CASE v.kind = "number" -> Ceiling(v.num, v.scale) <= n
              [] v.kind = "infinity" -> v.num < 0
              [] OTHER -> FALSE
    IN  Below(ToNumber(x))

(***************************************************************************)
(* getCigaretteEquivalent and getHealthAdvice                              *)
(***************************************************************************)
\* The estimate index / 22 in place of the steps.
getCigaretteEquivalentLinear(aqi) ==
    IF aqi.kind = "null" THEN 0 ELSE aqi.num \div 22

\* getCigaretteEquivalent(aqi)
getCigaretteEquivalent(aqi) ==
    IF aqi.kind = "null" THEN 0
    ELSE IF LessEq(aqi, 50) THEN 0
    ELSE IF LessEq(aqi, 100) THEN 2
    ELSE IF LessEq(aqi, 200) THEN 5
    ELSE IF LessEq(aqi, 300) THEN 8
    ELSE IF LessEq(aqi, 400) THEN 13
    ELSE 13

\* The advice: the tier, the action and the mask flag.  The action is a
\* text in pieces, each a run of characters or one code unit.
HealthAdvice(l, a, m) == [present |-> TRUE, level |-> l, action |-> a, mask |-> m]

\* The bands with exclusive upper bounds.
getHealthAdviceExclusive(aqi) ==
    IF LessEq(aqi, 49) THEN HealthAdvice("Good", <<>>, FALSE)
    ELSE IF LessEq(aqi, 99) THEN HealthAdvice("Moderate", <<>>, FALSE)
    ELSE IF LessEq(aqi, 149)
    THEN HealthAdvice("Unhealthy for Sensitive Groups", <<>>, TRUE)
    ELSE IF LessEq(aqi, 199) THEN HealthAdvice("Unhealthy", <<>>, TRUE)
    ELSE IF LessEq(aqi, 299) THEN HealthAdvice("Very Unhealthy", <<>>, TRUE)
    ELSE HealthAdvice("Hazardous", <<>>, TRUE)

\* getHealthAdvice(aqi).  The action of the first tier holds the three code
\* units the source file has between "good" and "enjoy".
getHealthAdvice(aqi) ==
    IF LessEq(aqi, 50)
    THEN HealthAdvice("Good",
            <<"Air quality is good ", "u201a", "u00c4", "u00ee",
              " enjoy outdoor activities.">>, FALSE)
    ELSE IF LessEq(aqi, 100)
    THEN HealthAdvice("Moderate",
            <<"Some sensitive people should reduce strenuous outdoor activity.">>, FALSE)
    ELSE IF LessEq(aqi, 150)
    THEN HealthAdvice("Unhealthy for Sensitive Groups",
            <<"People with respiratory conditions should limit outdoor exposure. Consider wearing an N95 for long time outdoors.">>, TRUE)
    ELSE IF LessEq(aqi, 200)
    THEN HealthAdvice("Unhealthy",
            <<"Avoid extended outdoor exertion. Use an N95/KN95 mask outdoors.">>, TRUE)
    ELSE IF LessEq(aqi, 300)
    THEN HealthAdvice("Very Unhealthy",
            <<"Stay indoors and use air purifiers if possible. Masks strongly recommended outdoors.">>, TRUE)
    ELSE HealthAdvice("Hazardous",
            <<"Remain indoors, avoid all outdoor activity. Seek medical advice if symptoms occur.">>, TRUE)

\* The advice memo: null (no tier, no advisory) when the index is null.
NoAdvice == [present |-> FALSE, level |-> "", action |-> <<>>, mask |-> FALSE]

Advice(aqi) == IF aqi.kind # "null" THEN getHealthAdvice(aqi) ELSE NoAdvice

\* typeof v === "number"
IsNumber(v) == v.kind \in {"number", "nan", "infinity"}

\* Number(raw) stored without the fallback to null.
NormalizeAqiNoFallback(raw) == IF IsNumber(raw) THEN raw ELSE ToNumber(raw)

\* The index fetchAndSet hands to setAqi for the provider's data.aqi, or
\* JThrow where Number(d.aqi) throws and setAqi is not called.
NormalizeAqi(raw) ==
    IF IsNumber(raw) THEN raw
    ELSE LET OrNull(n) ==
                 IF n.kind = "throw" THEN JThrow
                 ELSE IF Truthy(n) THEN n ELSE JNull
         IN  OrNull(ToNumber(raw))

(***************************************************************************)
(* The favorites list: load, save, toggleFavorite, removeFavorite          *)
(***************************************************************************)
FavCap == 10

\* The item under STORAGE_KEY: absent, or present with a text.
NoItem == [present |-> FALSE, text |-> <<>>]

Item(t) == [present |-> TRUE, text |-> t]

\* The initializer of the favorites state.  readOk is whether
\* localStorage.getItem returns (it throws where storage is denied).  The
\* result is [raised, value]: whether an exception leaves the initializer,
\* and the initial favorites.
LoadFavorites(item, readOk) ==
    IF ~readOk THEN [raised |-> FALSE, value |-> JArr(<<>>)]
    ELSE IF ~item.present \/ item.text = <<>>
         THEN [raised |-> FALSE, value |-> JArr(<<>>)]
    ELSE LET r == JSONParse(item.text)
         IN  IF r.ok THEN [raised |-> FALSE, value |-> r.val]
             ELSE [raised |-> FALSE, value |-> JArr(<<>>)]

\* The save effect without its catch.
SaveFavoritesUncaught(item, fav, writeOk) ==
    IF writeOk THEN [raised |-> FALSE, item |-> Item(JSONStringify(fav))]
    ELSE [raised |-> TRUE, item |-> item]

\* The save effect writing the names joined by commas.
SaveFavoritesJoined(item, fav, writeOk) ==
    IF writeOk /\ IsArray(fav)
    THEN [raised |-> FALSE, item |-> Item(StringifyItems(fav.items))]
    ELSE [raised |-> FALSE, item |-> item]

\* The save effect.  writeOk is whether localStorage.setItem returns (it
\* throws on a full or denied storage).  The result is [raised, item]:
\* whether an exception leaves the effect, and the item stored afterwards.
SaveFavorites(item, fav, writeOk) ==
    IF writeOk THEN [raised |-> FALSE, item |-> Item(JSONStringify(fav))]
    ELSE [raised |-> FALSE, item |-> item]

\* s.slice(0, n)
SliceTo(s, n) == SubSeq(s, 1, IF Len(s) < n THEN Len(s) ELSE n)

\* items.includes(x).  self is the index of the item that is the very
\* reference x, 0 where x is no item of the list.
Includes(items, x, self) ==
    \E i \in 1..Len(items) :
        SameValueZero(items[i], x) \/ (i = self /\ ~IsPrimitive(x))

RECURSIVE FilterFrom(_, _, _, _)
\* items.filter((p) => p !== x) from index i on.  self is the index of the
\* item that is the very reference x, 0 where x is no item of the list.
FilterFrom(items, x, self, i) ==
    IF i > Len(items) THEN <<>>
    ELSE IF StrictEquals(items[i], x) \/ (i = self /\ ~IsPrimitive(x))
         THEN FilterFrom(items, x, self, i + 1)
    ELSE <<items[i]>> \o FilterFrom(items, x, self, i + 1)

FilterOut(items, x, self) == FilterFrom(items, x, self, 1)

\* Whether text w occurs in text t (String.prototype.includes).
IsSubstring(w, t) ==
    \E i \in 1..(Len(t) + 1) : HasWord(t, i, w)

RECURSIVE SpreadText(_)
\* The characters of a text as string values ([...text]): one string for
\* each code point, a surrogate pair kept together.
SpreadText(t) ==
    IF t = <<>> THEN <<>>
    ELSE IF Len(t) >= 2 /\ IsHighSurrogate(t[1]) /\ IsLowSurrogate(t[2])
         THEN <<JStr(<<t[1], t[2]>>)>> \o SpreadText(Tail(Tail(t)))
    ELSE <<JStr(<<t[1]>>)>> \o SpreadText(Tail(t))

Updated(v) == [threw |-> FALSE, value |-> v]

Thrown == [threw |-> TRUE, value |-> JUndefined]

\* The updater adding a new name at the end.
ToggleUpdaterAppend(prev, name, self) ==
    IF IsArray(prev) /\ Includes(prev.items, name, self)
    THEN Updated(JArr(FilterOut(prev.items, name, self)))
    ELSE Updated(JArr(SliceTo(prev.items \o <<name>>, FavCap)))

\* The updater cutting the list one entry short.
ToggleUpdaterShort(prev, name, self) ==
    IF IsArray(prev) /\ Includes(prev.items, name, self)
    THEN Updated(JArr(FilterOut(prev.items, name, self)))
    ELSE Updated(JArr(SliceTo(<<name>> \o prev.items, FavCap - 1)))

\* The updater toggleFavorite hands to setFavorites; self is the index of
\* the item of prev that is the very reference name, 0 where there is none.
\* The result is [threw, value]: whether it throws TypeError (prev has no
\* includes or no filter method, or prev is a string and String(name)
\* throws), and the next favorites.
ToggleUpdater(prev, name, self) ==
    LET Has(w) == w.kind = "throw" \/ IsSubstring(w.text, prev.text)
    IN  IF IsArray(prev)
        THEN IF Includes(prev.items, name, self)
             THEN Updated(JArr(FilterOut(prev.items, name, self)))
             ELSE Updated(JArr(SliceTo(<<name>> \o prev.items, FavCap)))
        ELSE IF IsString(prev)
        THEN IF Has(ToText(name)) THEN Thrown
             ELSE Updated(JArr(SliceTo(<<name>> \o SpreadText(prev.text), FavCap)))
        ELSE Thrown

\* The updater removing the first occurrence only.
RemoveUpdaterFirstOnly(prev, name, self) ==
    IF ~IsArray(prev) THEN Thrown
    ELSE IF ~Includes(prev.items, name, 0) THEN Updated(prev)
    ELSE LET p == CHOOSE i \in 1..Len(prev.items) :
                     /\ StrictEquals(prev.items[i], name)
                     /\ \A j \in 1..(i - 1) : ~StrictEquals(prev.items[j], name)
         IN  Updated(JArr(SubSeq(prev.items, 1, p - 1)
                            \o SubSeq(prev.items, p + 1, Len(prev.items))))

\* The updater removeFavorite hands to setFavorites.
RemoveUpdater(prev, name, self) ==
    IF IsArray(prev) THEN Updated(JArr(FilterOut(prev.items, name, self)))
    ELSE Thrown

RECURSIVE HasObject(_)
\* Whether a React child holds a plain object, which React refuses to render.
HasObject(v) ==
    \/ v.kind = "object"
    \/ /\ v.kind = "array"
       /\ \E i \in 1..Len(v.items) : HasObject(v.items[i])

\* Whether new Date(v) is a valid date, which date-fns format requires
\* (where String(v) throws, new Date(v) throws, and there is no date).
\* undefined, NaN and the infinities are not; null, a boolean and a number
\* are.  A string, and an array or an object through its String(v), is
\* parsed by Date.parse:
\*   - a text of the date-time string format, [+-YY]YYYY[-MM[-DD]] with
\*     [THH:mm[:ss[.sss]][Z or +-HH:mm]] after it, and a text of the form of
\*     toUTCString, "Www, DD Mon YYYY HH:mm:ss GMT", each with legal values,
\*     is a date where its time is within 100,000,000 days of 1970 and is
\*     not where it is beyond; a time without Z or offset is local, and
\*     within a day of these ends it is as the host's time zone has it;
\*   - every other text is left to the host: a date or not as the host
\*     reads it (lenient), but for a text without a digit, not a date.
ValidDate(v, lenient) ==
    LET D(t, p) == DigitValue(t[p])
        N2(t, p) == 10 * D(t, p) + D(t, p + 1)
        N3(t, p) == 10 * N2(t, p) + D(t, p + 2)
        N4(t, p) == 100 * N2(t, p) + N2(t, p + 2)
        Value(t, p, n) ==
            CASE n = 4 -> N4(t, p)
              [] n = 5 -> 10 * N4(t, p) + D(t, p + 4)
              [] OTHER -> 100 * N4(t, p) + N2(t, p + 4)
        Digits(t, p, n) ==
            p + n - 1 <= Len(t) /\ \A q \in p..(p + n - 1) : IsDigit(t[q])
        At(t, p, c) == p <= Len(t) /\ t[p] = c
        Leap(y) == (y % 4 = 0 /\ y % 100 # 0) \/ y % 400 = 0
        DaysIn(y, mo) ==
            IF mo = 2 THEN (IF Leap(y) THEN 29 ELSE 28)
            ELSE IF mo \in {4, 6, 9, 11} THEN 30 ELSE 31
        DayOfYear(y, mo, d) ==
            <<0, 31, 59, 90, 120, 151, 181, 212, 243, 273, 304, 334>>[mo] + d
              + (IF mo > 2 /\ Leap(y) THEN 1 ELSE 0)
        \* The days from 1970-01-01 to the day d of month mo of year y.
        DayNumber(y, mo, d) ==
            LET Civil(yy, mm) ==
                    (yy \div 400) * 146097 + (yy % 400) * 365
                      + (yy % 400) \div 4 - (yy % 400) \div 100
                      + (153 * mm + 2) \div 5 + d - 1 - 719468
            IN  Civil(IF mo <= 2 THEN y - 1 ELSE y,
                      IF mo > 2 THEN mo - 3 ELSE mo + 9)
        \* Whether minute mins (of UTC) of the day is a time value: the
        \* last is +275760-09-13T00:00Z, the first -271821-04-20T00:00Z;
        \* whole: the time has no seconds and no milliseconds.
        Reach(y, mo, d, mins, whole) ==
            CASE y > 275760 \/ y < 0 - 271821 -> FALSE
              [] y = 275760 ->
                    (DayOfYear(y, mo, d) - DayOfYear(y, 9, 13)) * 1440 + mins
                        < (IF whole THEN 1 ELSE 0)
              [] y = 0 - 271821 ->
                    (DayOfYear(y, mo, d) - DayOfYear(y, 4, 20)) * 1440 + mins >= 0
              [] OTHER -> TRUE
        Known(b) == IF b THEN "date" ELSE "none"
        Zone(t, z, y, mo, d, mins, whole) ==
            IF z = Len(t) + 1
            THEN IF Reach(y, mo, d, mins - 1440, whole)
                      = Reach(y, mo, d, mins + 1440, whole)
                 THEN Known(Reach(y, mo, d, mins, whole))
                 ELSE "host"
            ELSE IF At(t, z, "Z") /\ Len(t) = z
            THEN Known(Reach(y, mo, d, mins, whole))
            ELSE IF /\ Len(t) = z + 5
                    /\ t[z] \in {"+", "-"}
                    /\ Digits(t, z + 1, 2)
                    /\ t[z + 3] = ":"
                    /\ Digits(t, z + 4, 2)
                    /\ N2(t, z + 1) <= 23
                    /\ N2(t, z + 4) <= 59
            THEN Known(Reach(y, mo, d,
                             IF t[z] = "+"
                             THEN mins - (60 * N2(t, z + 1) + N2(t, z + 4))
                             ELSE mins + (60 * N2(t, z + 1) + N2(t, z + 4)),
                             whole))
            ELSE "host"
        Clock(t, z, y, mo, d, h, m, sec, ms) ==
            IF \/ h <= 23 /\ m <= 59 /\ sec <= 59
               \/ h = 24 /\ m = 0 /\ sec = 0 /\ ms = 0
            THEN Zone(t, z, y, mo, d, 60 * h + m, sec = 0 /\ ms = 0)
            ELSE "host"
        Time(t, p, y, mo, d) ==
            IF mo \notin 1..12 \/ d \notin 1..DaysIn(y, mo) THEN "host"
            ELSE IF p = Len(t) + 1 THEN Known(Reach(y, mo, d, 0, TRUE))
            ELSE IF ~(/\ At(t, p, "T")
                      /\ Digits(t, p + 1, 2)
                      /\ At(t, p + 3, ":")
                      /\ Digits(t, p + 4, 2))
            THEN "host"
            ELSE IF At(t, p + 6, ":") /\ Digits(t, p + 7, 2)
            THEN IF At(t, p + 9, ".") /\ Digits(t, p + 10, 3)
                 THEN Clock(t, p + 13, y, mo, d, N2(t, p + 1), N2(t, p + 4),
                            N2(t, p + 7), N3(t, p + 10))
                 ELSE Clock(t, p + 9, y, mo, d, N2(t, p + 1), N2(t, p + 4),
                            N2(t, p + 7), 0)
            ELSE Clock(t, p + 6, y, mo, d, N2(t, p + 1), N2(t, p + 4), 0, 0)
        Date(t, yl, y) ==
            IF At(t, yl + 1, "-") /\ Digits(t, yl + 2, 2)
            THEN IF At(t, yl + 4, "-") /\ Digits(t, yl + 5, 2)
                 THEN Time(t, yl + 7, y, N2(t, yl + 2), N2(t, yl + 5))
                 ELSE Time(t, yl + 4, y, N2(t, yl + 2), 1)
            ELSE Time(t, yl + 1, y, 1, 1)
        Iso(t) ==
            IF At(t, 1, "+") \/ At(t, 1, "-")
            THEN IF Digits(t, 2, 6) /\ ~(t[1] = "-" /\ Value(t, 2, 6) = 0)
                 THEN Date(t, 7, IF t[1] = "-" THEN 0 - Value(t, 2, 6)
                                 ELSE Value(t, 2, 6))
                 ELSE "host"
            ELSE IF Digits(t, 1, 4) THEN Date(t, 4, N4(t, 1))
            ELSE "host"
        WeekDays ==
            << <<"S", "u", "n">>, <<"M", "o", "n">>, <<"T", "u", "e">>,
               <<"W", "e", "d">>, <<"T", "h", "u">>, <<"F", "r", "i">>,
               <<"S", "a", "t">> >>
        Months ==
            << <<"J", "a", "n">>, <<"F", "e", "b">>, <<"M", "a", "r">>,
               <<"A", "p", "r">>, <<"M", "a", "y">>, <<"J", "u", "n">>,
               <<"J", "u", "l">>, <<"A", "u", "g">>, <<"S", "e", "p">>,
               <<"O", "c", "t">>, <<"N", "o", "v">>, <<"D", "e", "c">> >>
        UtcDay(wd, y, mo, d, h, m, sec) ==
            IF /\ d \in 1..DaysIn(y, mo)
               /\ h <= 23 /\ m <= 59 /\ sec <= 59
               /\ WeekDays[((DayNumber(y, mo, d) + 4) % 7) + 1] = wd
            THEN Known(Reach(y, mo, d, 60 * h + m, sec = 0))
            ELSE "host"
        \* "Www, DD Mon YYYY HH:mm:ss GMT", the year of n digits.
        Utc(t, n) ==
            IF /\ n \in 4..6
               /\ \E i \in 1..7 : WeekDays[i] = SubSeq(t, 1, 3)
               /\ SubSeq(t, 4, 5) = <<",", " ">>
               /\ Digits(t, 6, 2)
               /\ t[8] = " "
               /\ \E i \in 1..12 : Months[i] = SubSeq(t, 9, 11)
               /\ t[12] = " "
               /\ Digits(t, 13, n)
               /\ n > 4 => t[13] # "0"
               /\ t[13 + n] = " "
               /\ Digits(t, 14 + n, 2)
               /\ t[16 + n] = ":"
               /\ Digits(t, 17 + n, 2)
               /\ t[19 + n] = ":"
               /\ Digits(t, 20 + n, 2)
               /\ SubSeq(t, 22 + n, 25 + n) = <<" ", "G", "M", "T">>
            THEN UtcDay(SubSeq(t, 1, 3), Value(t, 13, n),
                        CHOOSE i \in 1..12 : Months[i] = SubSeq(t, 9, 11),
                        N2(t, 6), N2(t, 14 + n), N2(t, 17 + n), N2(t, 20 + n))
            ELSE "host"
        Verdict(r) ==
            CASE r = "date" -> TRUE
              [] r = "none" -> FALSE
              [] OTHER -> lenient
        Parse(t) ==
            IF \A p \in 1..Len(t) : ~IsDigit(t[p]) THEN FALSE
            ELSE IF Len(t) >= 1 /\ (IsDigit(t[1]) \/ t[1] \in {"+", "-"})
            THEN Verdict(Iso(t))
            ELSE Verdict(Utc(t, Len(t) - 25))
        Reads(w) == w.kind # "throw" /\ Parse(w.text)
    IN  CASE v.kind \in {"undefined", "nan", "infinity"} -> FALSE
          [] v.kind \in {"null", "true", "false", "number"} -> TRUE
          [] OTHER -> Reads(ToText(v))

\* Whether rendering throws: favorites.includes and favorites.map must be
\* callable, every rendered child must be renderable, and every forecast
\* day must format as a date; lenient: the host reads as dates the days
\* whose form is left to it.
RenderThrows(fav, loc, err, pol, fc, lenient) ==
    \/ fav.kind \notin {"array", "string"}
    \/ fav.kind = "string" /\ fav.text # <<>>
    \/ fav.kind = "array" /\ \E i \in 1..Len(fav.items) : HasObject(fav.items[i])
    \/ Truthy(loc) /\ HasObject(loc)
    \/ Truthy(err) /\ HasObject(err)
    \/ \E k \in DOMAIN pol : HasObject(pol[k])
    \/ \E i \in 1..Len(fc.days) :
          \/ ~ValidDate(fc.days[i].day, lenient)
          \/ HasObject(fc.days[i].pm25)
          \/ HasObject(fc.days[i].pm10)
          \/ HasObject(fc.days[i].o3)

(***************************************************************************)
(* Property access on provider data                                        *)
(***************************************************************************)
kStatus == <<"s", "t", "a", "t", "u", "s">>

kData == <<"d", "a", "t", "a">>

kAqi == <<"a", "q", "i">>

kCity == <<"c", "i", "t", "y">>

kName == <<"n", "a", "m", "e">>

kIaqi == <<"i", "a", "q", "i">>

kV == <<"v">>

kPm25 == <<"p", "m", "2", "5">>

kPm10 == <<"p", "m", "1", "0">>

kNo2 == <<"n", "o", "2">>

kSo2 == <<"s", "o", "2">>

kCo == <<"c", "o">>

kO3 == <<"o", "3">>

kForecast == <<"f", "o", "r", "e", "c", "a", "s", "t">>

kDaily == <<"d", "a", "i", "l", "y">>

kHourly == <<"h", "o", "u", "r", "l", "y">>

kDay == <<"d", "a", "y">>

kAvg == <<"a", "v", "g">>

kHour == <<"h", "o", "u", "r">>

tError == <<"e", "r", "r", "o", "r">>

Nullish(v) == v.kind \in {"null", "undefined"}

\* v.k for a value v that is neither null nor undefined (on those the access
\* throws TypeError) and a key k that is no index and no built-in property.
Get(v, k) ==
    IF v.kind = "object" /\ \E p \in 1..Len(v.keys) : v.keys[p] = k
    THEN v.items[CHOOSE p \in 1..Len(v.keys) : v.keys[p] = k]
    ELSE JUndefined

\* v?.k
OptGet(v, k) == IF Nullish(v) THEN JUndefined ELSE Get(v, k)

\* a ?? b
Coalesce(a, b) == IF Nullish(a) THEN b ELSE a

\* Object.keys(v) for a truthy v.
KeysOf(v) ==
    CASE v.kind = "object" -> v.keys
      [] v.kind = "array" -> [p \in 1..Len(v.items) |-> NatToText(p - 1)]
      [] v.kind = "string" -> [p \in 1..Len(v.text) |-> NatToText(p - 1)]
      [] OTHER -> <<>>

\* v[k] for a key k of KeysOf(v).
Index(v, k) ==
    CASE v.kind = "object" -> Get(v, k)
      [] v.kind = "array" ->
            v.items[CHOOSE p \in 1..Len(v.items) : NatToText(p - 1) = k]
      [] v.kind = "string" ->
            JStr(<<v.text[CHOOSE p \in 1..Len(v.text) : NatToText(p - 1) = k]>>)
      [] OTHER -> JUndefined

\* An error message, a string kept as one unit.  The message of an error
\* the engine raises is written as the name of the error, the rejection of
\* fetch as "Failed to fetch".
Msg(m) == JStr(<<m>>)

\* Whether encodeURIComponent(query) throws: String(query) throws
\* TypeError, or the text of the query holds one half of a surrogate pair
\* without the other (URIError).
Malformed(query) ==
    LET Lone(t) ==
            \E i \in 1..Len(t) :
               \/ IsHighSurrogate(t[i]) /\ ~(i < Len(t) /\ IsLowSurrogate(t[i + 1]))
               \/ IsLowSurrogate(t[i]) /\ ~(i > 1 /\ IsHighSurrogate(t[i - 1]))
        Throws(w) == w.kind = "throw" \/ Lone(w.text)
    IN  Throws(ToText(query))

(***************************************************************************)
(* fetchAndSet: what it derives from the provider's JSON                   *)
(***************************************************************************)
Pollutants(a, b, c, d, e, f) ==
    [pm25 |-> a, pm10 |-> b, no2 |-> c, so2 |-> d, co |-> e, o3 |-> f]

NoPollutants ==
    Pollutants(JUndefined, JUndefined, JUndefined, JUndefined, JUndefined, JUndefined)

\* iaqi.k?.v ?? undefined
PollutantOf(iaqi, k) == Coalesce(OptGet(Get(iaqi, k), kV), JUndefined)

ReadPollutants(iaqi) ==
    Pollutants(PollutantOf(iaqi, kPm25), PollutantOf(iaqi, kPm10),
               PollutantOf(iaqi, kNo2), PollutantOf(iaqi, kSo2),
               PollutantOf(iaqi, kCo), PollutantOf(iaqi, kO3))

Found(v) == [threw |-> FALSE, value |-> v]

RECURSIVE FindAvg(_, _, _, _)
\* arr.find((it) => it.day === dayStr)?.avg from index i on; reading it.day
\* of a null or undefined item throws.  self is the index of the entry of
\* arr whose day is the very reference dayStr, 0 where there is none.
FindAvg(arr, dayStr, self, i) ==
    IF i > Len(arr) THEN Found(JUndefined)
    ELSE IF Nullish(arr[i]) THEN Thrown
    ELSE IF \/ StrictEquals(Get(arr[i], kDay), dayStr)
            \/ i = self /\ ~IsPrimitive(dayStr)
         THEN Found(Get(arr[i], kAvg))
    ELSE FindAvg(arr, dayStr, self, i + 1)

\* daily.k?.find((it) => it.day === dayStr)?.avg ?? null, for the dayStr
\* read from entry number ei of daily[from].
DailyAvg(daily, k, dayStr, from, ei) ==
    LET c == Get(daily, k)
    IN  IF Nullish(c) THEN Found(JNull)
        ELSE IF ~IsArray(c) THEN Thrown
        ELSE LET r == FindAvg(c.items, dayStr, IF from = k THEN ei ELSE 0, 1)
             IN  IF r.threw THEN Thrown ELSE Found(Coalesce(r.value, JNull))

ForecastDay(day, a, b, c) ==
    [day |-> day, pm25 |-> a, pm10 |-> b, o3 |-> c, aqi |-> JNull]

ForecastLimit == 3

RECURSIVE ForecastLoopNoFind(_, _, _, _, _)
\* The loops pushing every entry, without the search for an existing day.
ForecastLoopNoFind(daily, keys, ki, ei, f) ==
    IF ki > Len(keys) THEN Found(f)
    ELSE LET arr == Index(daily, keys[ki])
         IN  IF ~IsArray(arr) THEN ForecastLoopNoFind(daily, keys, ki + 1, 1, f)
             ELSE IF ei > Len(SliceTo(arr.items, ForecastLimit))
                  THEN IF Len(f) >= ForecastLimit THEN Found(f)
                       ELSE ForecastLoopNoFind(daily, keys, ki + 1, 1, f)
             ELSE LET entry == arr.items[ei]
                  IN  IF Nullish(entry) THEN Thrown
                      ELSE LET dayStr == Get(entry, kDay)
                               a == DailyAvg(daily, kPm25, dayStr, keys[ki], ei)
                               b == DailyAvg(daily, kPm10, dayStr, keys[ki], ei)
                               c == DailyAvg(daily, kO3, dayStr, keys[ki], ei)
                           IN  IF a.threw \/ b.threw \/ c.threw THEN Thrown
                               ELSE LET g == Append(f, ForecastDay(dayStr, a.value, b.value, c.value))
                                    IN  IF Len(g) >= ForecastLimit THEN Found(g)
                                        ELSE ForecastLoopNoFind(daily, keys, ki, ei + 1, g)

RECURSIVE ForecastLoop(_, _, _, _, _)
\* The two nested loops that fill f, at key number ki of keys and entry
\* number ei of daily[keys[ki]].slice(0, 3).  The result is [threw, value].
ForecastLoop(daily, keys, ki, ei, f) ==
    IF ki > Len(keys) THEN Found(f)
    ELSE LET arr == Index(daily, keys[ki])
         IN  IF ~IsArray(arr) THEN ForecastLoop(daily, keys, ki + 1, 1, f)
             ELSE IF ei > Len(SliceTo(arr.items, ForecastLimit))
                  THEN IF Len(f) >= ForecastLimit THEN Found(f)
                       ELSE ForecastLoop(daily, keys, ki + 1, 1, f)
             ELSE LET entry == arr.items[ei]
                  IN  IF Nullish(entry) THEN Thrown
                      ELSE LET dayStr == Get(entry, kDay)
                               existing == \E p \in 1..Len(f) : StrictEquals(f[p].day, dayStr)
                               a == DailyAvg(daily, kPm25, dayStr, keys[ki], ei)
                               b == DailyAvg(daily, kPm10, dayStr, keys[ki], ei)
                               c == DailyAvg(daily, kO3, dayStr, keys[ki], ei)
                           IN  IF existing
                               THEN IF Len(f) >= ForecastLimit THEN Found(f)
                                    ELSE ForecastLoop(daily, keys, ki, ei + 1, f)
                               ELSE IF a.threw \/ b.threw \/ c.threw THEN Thrown
                               ELSE LET g == Append(f, ForecastDay(dayStr, a.value, b.value, c.value))
                                    IN  IF Len(g) >= ForecastLimit THEN Found(g)
                                        ELSE ForecastLoop(daily, keys, ki, ei + 1, g)

\* The list f built from d.forecast.daily: [threw, value].
BuildForecast(d) ==
    LET fc == Get(d, kForecast)
    IN  IF Truthy(fc) /\ Truthy(OptGet(fc, kDaily))
        THEN ForecastLoop(Get(fc, kDaily), KeysOf(Get(fc, kDaily)), 1, 1, <<>>)
        ELSE Found(<<>>)

\* The forecast state: null, or a non-empty list of days.
NoForecast == [isNull |-> TRUE, days |-> <<>>]

ForecastOf(f) == IF Len(f) > 0 THEN [isNull |-> FALSE, days |-> f] ELSE NoForecast

\* One point of the trend: its label (hoursAgo >= 0 stands for the clock
\* time that many hours before now, formatted "HH:mm") and its value.
HourPoint(time, hoursAgo, value) ==
    [time |-> time, hoursAgo |-> hoursAgo, value |-> value]

HourlyLimit == 24

RECURSIVE HourlyFrom(_, _)
\* The points pushed from hourlyObj.pm25.slice(0, 24), entry i on; a null or
\* undefined entry, and an entry whose value Number() cannot convert,
\* throws into the inner catch, which keeps the points pushed before it.
HourlyFrom(arr, i) ==
    LET Push(it, value) ==
            IF value.kind = "throw" THEN <<>>
            ELSE <<HourPoint(Coalesce(Coalesce(Get(it, kHour), Get(it, kDay)),
                                      JStr(<<>>)),
                             -1, value)>>
                   \o HourlyFrom(arr, i + 1)
    IN  IF i > Len(arr) \/ Nullish(arr[i]) THEN <<>>
        ELSE Push(arr[i],
                  ToNumber(Coalesce(Coalesce(Get(arr[i], kAvg), Get(arr[i], kV)),
                                    arr[i])))

\* The synthetic series from the iaqi values, one point per pollutant.
FallbackHourly(iaqi) ==
    LET ks == <<kPm25, kPm10, kO3, kNo2, kSo2, kCo>>
    IN  [p \in 1..Len(ks) |->
            HourPoint(JUndefined, p - 1, Coalesce(OptGet(Get(iaqi, ks[p]), kV), JNum(0)))]

BuildHourly(d, iaqi) ==
    LET ho == OptGet(Get(d, kForecast), kHourly)
        pm == IF Truthy(ho) THEN Get(ho, kPm25) ELSE JUndefined
        got == IF Truthy(pm) /\ IsArray(pm)
               THEN HourlyFrom(SliceTo(pm.items, HourlyLimit), 1)
               ELSE <<>>
        hourly == IF Len(got) = 0 THEN FallbackHourly(iaqi) ELSE got
    IN  SliceTo(hourly, HourlyLimit)

\* What one provider response makes fetchAndSet set.  resp is [net, json]:
\* net is "reject" (fetch rejects), "notok" (res.ok is false), "badjson"
\* (res.json() rejects), "json" (the body parsed to resp.json) or "unsent"
\* (no request was made: the query has no URL).  stage is
\* "threwEarly" (an exception before any setter), "apiError" (the status
\* "error" return), "threwLate" (an exception after setAqi, setLocationName
\* and setPollutants) or "done".
Outcome(stage, err, a, loc, pol, fc, ho) ==
    [stage |-> stage, error |-> err, aqi |-> a, loc |-> loc,
     pollutants |-> pol, forecast |-> fc, hourly |-> ho]

EarlyThrow(m) ==
    Outcome("threwEarly", Msg(m), JNull, JUndefined, NoPollutants, NoForecast, <<>>)

ProcessResponse(resp, query) ==
    IF Malformed(query) \/ resp.net = "unsent"
    THEN EarlyThrow(IF ToText(query).kind = "throw" THEN "TypeError" ELSE "URIError")
    ELSE
    CASE resp.net = "reject" -> EarlyThrow("Failed to fetch")
      [] resp.net = "notok" -> EarlyThrow("Network error")
      [] resp.net = "badjson" -> EarlyThrow("SyntaxError")
      [] OTHER ->
            LET json == resp.json
                d == Get(json, kData)
            IN  IF Nullish(json) THEN EarlyThrow("TypeError")
                ELSE IF StrictEquals(Get(json, kStatus), JStr(tError))
                THEN Outcome("apiError",
                             Coalesce(d, Msg("City not found or API error")),
                             JNull, JUndefined, NoPollutants, NoForecast, <<>>)
                ELSE IF Nullish(d) THEN EarlyThrow("TypeError")
                ELSE LET Set(a, loc, iaqi, f) ==
                             IF f.threw
                             THEN Outcome("threwLate", Msg("TypeError"), a, loc,
                                          ReadPollutants(iaqi), NoForecast, <<>>)
                             ELSE Outcome("done", JNull, a, loc,
                                          ReadPollutants(iaqi), ForecastOf(f.value),
                                          BuildHourly(d, iaqi))
                     IN  IF NormalizeAqi(Get(d, kAqi)).kind = "throw"
                         THEN EarlyThrow("TypeError")
                         ELSE
                         Set(NormalizeAqi(Get(d, kAqi)),
                             Coalesce(OptGet(Get(d, kCity), kName), query),
                             IF Truthy(Get(d, kIaqi)) THEN Get(d, kIaqi)
                             ELSE JObj(<<>>, <<>>),
                             BuildForecast(d))

(***************************************************************************)
(* The component                                                           *)
(***************************************************************************)
VARIABLES
    phase,         \* "constructed", "mounted" or "crashed" (a render threw)
    storage,       \* the item under STORAGE_KEY
    favorites,     \* the favorites state, a JavaScript value
    city,          \* the search box
    aqi,           \* the index: null or a number
    locationName,
    pollutants,
    loading,
    error,         \* null or the message shown
    forecast,
    hourlyData,
    inflight,      \* the fetchAndSet calls suspended at an await
    started,       \* how many fetchAndSet calls have started
    last,          \* the last handler that ran and its inputs
    run            \* the favorites operations the run has applied

view == <<favorites, city, aqi, locationName, pollutants, loading, error,
          forecast, hourlyData>>

vars == <<phase, storage, favorites, city, aqi, locationName, pollutants,
          loading, error, forecast, hourlyData, inflight, started, last, run>>

\* Bound of the model: the fetchAndSet calls of one run.
MaxFetches == 1

\* The record of the last handler: op names it, name is the favorite it
\* toggled or removed, ok whether its storage access returned, threw whether
\* its updater or its render threw, resp and query the response and the
\* query of a fetch that completed.
NoLast ==
    [op |-> "none", name |-> JUndefined, ok |-> TRUE, threw |-> FALSE,
     resp |-> <<>>, query |-> JUndefined]

Ran(op) == [NoLast EXCEPT !.op = op]


(***************************************************************************)
(* Construction and mount                                                  *)
(***************************************************************************)
\* The objects JSON.parse made for the items of a list, told apart: the
\* item number i that is an array or an object is object number i.
Labelled(v) ==
    IF ~IsArray(v) THEN v
    ELSE [v EXCEPT !.items = [i \in 1..Len(v.items) |->
                                 IF IsPrimitive(v.items[i]) THEN v.items[i]
                                 ELSE [v.items[i] EXCEPT !.ref = i]]]

\* The index of the item of fav that is the very reference x, 0 where there
\* is none.
ItemThatIs(fav, x) ==
    IF /\ IsArray(fav) /\ ~IsPrimitive(x) /\ x.ref # 0
       /\ \E i \in 1..Len(fav.items) : fav.items[i].ref = x.ref
    THEN CHOOSE i \in 1..Len(fav.items) : fav.items[i].ref = x.ref
    ELSE 0

\* The component's state after the useState initializers ran with item in
\* the storage.
Initialized(item, readOk) ==
    \E r \in {LoadFavorites(item, readOk)} :
        /\ storage = item
        /\ favorites = Labelled(r.value)
        /\ phase = IF r.raised THEN "crashed" ELSE "constructed"
        /\ city = JStr(<<>>)
        /\ aqi = JNull
        /\ locationName = JStr(<<>>)
        /\ pollutants = NoPollutants
        /\ loading = FALSE
        /\ error = JNull
        /\ forecast = NoForecast
        /\ hourlyData = <<>>
        /\ inflight = {}
        /\ started = 0
        /\ last = [NoLast EXCEPT !.op = "load", !.ok = readOk]

Constructed(item, readOk) ==
    /\ Initialized(item, readOk)
    /\ run = [n |-> 0]

\* The first render and, when it does not throw, the save effect.  The
\* forecast is null, and no day is read.
Mount ==
    /\ phase = "constructed"
    /\ IF RenderThrows(favorites, locationName, error, pollutants, forecast, TRUE)
       THEN /\ phase' = "crashed"
            /\ last' = [Ran("mount") EXCEPT !.threw = TRUE]
            /\ UNCHANGED storage
       ELSE \E writeOk \in BOOLEAN :
               \E sv \in {SaveFavorites(storage, favorites, writeOk)} :
                   /\ storage' = sv.item
                   /\ phase' = IF sv.raised THEN "crashed" ELSE "mounted"
                   /\ last' = [Ran("mount") EXCEPT !.ok = writeOk]
    /\ UNCHANGED <<view, inflight, started, run>>

(***************************************************************************)
(* Favorites handlers: the state update, the render and the save effect    *)
(***************************************************************************)
\* setFavorites(updater) with the updater's result u, for operation op on
\* name: a throwing updater or render unmounts the component, otherwise the
\* save effect runs on the new list.  The forecast on screen is one this
\* host has rendered: its days are dates.
SetFavorites(op, name, updated) ==
    \E u \in {updated}, rec \in {[Ran(op) EXCEPT !.name = name]} :
        /\ phase = "mounted"
        /\ IF u.threw
              \/ RenderThrows(u.value, locationName, error, pollutants, forecast,
                              TRUE)
           THEN /\ phase' = "crashed"
                /\ last' = [rec EXCEPT !.threw = TRUE]
                /\ UNCHANGED <<favorites, storage>>
           ELSE \E writeOk \in BOOLEAN :
                   \E sv \in {SaveFavorites(storage, u.value, writeOk)} :
                       /\ favorites' = u.value
                       /\ storage' = sv.item
                       /\ phase' = IF sv.raised THEN "crashed" ELSE "mounted"
                       /\ last' = [rec EXCEPT !.ok = writeOk]
        /\ UNCHANGED <<city, aqi, locationName, pollutants, loading, error,
                       forecast, hourlyData, inflight, started>>

\* self is the index of the list item that name is, 0 if it is none.
toggleFavorite(name, self) ==
    SetFavorites("toggle", name, ToggleUpdater(favorites, name, self))

removeFavorite(name, self) ==
    SetFavorites("remove", name, RemoveUpdater(favorites, name, self))

\* The two toggle buttons.
ToggleClick ==
    /\ Truthy(locationName)
    /\ toggleFavorite(locationName, ItemThatIs(favorites, locationName))
    /\ UNCHANGED run

\* The remove button of the saved city at index i.
RemoveClick ==
    /\ IsArray(favorites)
    /\ \E i \in 1..Len(favorites.items) : removeFavorite(favorites.items[i], i)
    /\ UNCHANGED run

(***************************************************************************)
(* fetchAndSet and the handlers that call it                               *)
(***************************************************************************)
Unsent == [net |-> "unsent", json |-> JUndefined]

\* fetchAndSet(query) up to its first await; newCity is the search box
\* after the handler that called it.  On a query that has no URL the call
\* runs to its end at once: the catch sets the error, finally ends loading.
FetchStart(query, newCity) ==
    /\ phase = "mounted"
    /\ city' = newCity
    /\ loading' = ~Malformed(query)
    /\ error' = IF Malformed(query) THEN ProcessResponse(Unsent, query).error
                ELSE JNull
    /\ aqi' = JNull
    /\ pollutants' = NoPollutants
    /\ forecast' = NoForecast
    /\ hourlyData' = <<>>
    /\ started' = started + 1
    /\ inflight' = IF Malformed(query) THEN inflight
                   ELSE inflight \cup {[id |-> started + 1, query |-> query,
                                         at |-> "fetch"]}
    /\ last' = IF Malformed(query)
               THEN [Ran("fetchDone") EXCEPT !.resp = Unsent, !.query = query]
               ELSE [Ran("fetchStart") EXCEPT !.query = query]
    /\ UNCHANGED <<phase, storage, favorites, locationName, run>>

\* Call req resumes from await fetch(url) with a response that is ok, and
\* suspends again at await res.json(): no state is read or set.
FetchResponded(req) ==
    /\ phase = "mounted"
    /\ req \in inflight
    /\ req.at = "fetch"
    /\ inflight' = (inflight \ {req}) \cup {[req EXCEPT !.at = "json"]}
    /\ last' = [Ran("fetchResponded") EXCEPT !.query = req.query]
    /\ UNCHANGED <<phase, storage, favorites, city, aqi, locationName, pollutants,
                   loading, error, forecast, hourlyData, started, run>>

\* fetchAndSet from the await where call req is suspended to its end, and
\* the render: from await fetch(url) when fetch rejects or the response is
\* not ok, from await res.json() when the body is read or is no JSON.  A
\* location name that is an array or an object of the response is a new
\* object, told apart by the number of the call.  A forecast the call sets
\* is rendered as the host reads its days (either way, where the form of a
\* day is left to the host); a forecast it keeps has been rendered.
FetchSettled(req, resp) ==
    \E o \in {ProcessResponse(resp, req.query)} :
        /\ phase = "mounted"
        /\ req \in inflight
        /\ req.at = IF resp.net \in {"reject", "notok"} THEN "fetch" ELSE "json"
        /\ inflight' = inflight \ {req}
        /\ aqi' = IF o.stage \in {"threwLate", "done"} THEN o.aqi ELSE aqi
        /\ locationName' =
              IF o.stage \notin {"threwLate", "done"} THEN locationName
              ELSE IF IsPrimitive(o.loc) \/ o.loc = req.query THEN o.loc
              ELSE [o.loc EXCEPT !.ref = 0 - req.id]
        /\ pollutants' =
              IF o.stage \in {"threwLate", "done"} THEN o.pollutants ELSE pollutants
        /\ forecast' = IF o.stage = "done" THEN o.forecast ELSE forecast
        /\ hourlyData' = IF o.stage = "done" THEN o.hourly ELSE hourlyData
        /\ error' = IF o.stage = "done" THEN error ELSE o.error
        /\ loading' = FALSE
        /\ \E lenient \in IF o.stage = "done" /\ o.forecast.days # <<>>
                           THEN BOOLEAN ELSE {TRUE} :
              phase' = IF RenderThrows(favorites, locationName', error',
                                       pollutants', forecast', lenient)
                       THEN "crashed" ELSE "mounted"
        /\ last' = [Ran("fetchDone") EXCEPT !.resp = resp, !.query = req.query]
        /\ UNCHANGED <<storage, favorites, city, started>>

FetchComplete(req, resp) ==
    /\ FetchSettled(req, resp)
    /\ UNCHANGED run

\* The search box's onChange.
SetCity(t) ==
    /\ phase = "mounted"
    /\ city' = JStr(t)
    /\ last' = Ran("setCity")
    /\ UNCHANGED <<phase, storage, favorites, aqi, locationName, pollutants,
                   loading, error, forecast, hourlyData, inflight, started, run>>

\* city.trim() throws on a city that is no string, and the handler ends.
onSearch ==
    /\ IsString(city)
    /\ Trim(city.text) # <<>>
    /\ FetchStart(JStr(Trim(city.text)), city)

\* The load buttons of the saved city at index i.
loadFavorite ==
    /\ IsArray(favorites)
    /\ \E i \in 1..Len(favorites.items) :
          FetchStart(favorites.items[i], favorites.items[i])

\* The query `geo:${lat};${lon}` of the position lat 1, lon 2.
GeoQuery == JStr(<<"g", "e", "o", ":", "1", ";", "2">>)

\* The position callback of the mount effect and of the location button.
fetchByGeo == FetchStart(GeoQuery, city)

\* The location button where geolocation is missing or denied.
GeoError ==
    /\ phase = "mounted"
    /\ \E m \in {"Geolocation not supported by your browser",
                 "Location permission denied"} : error' = Msg(m)
    /\ last' = Ran("geoError")
    /\ UNCHANGED <<phase, storage, favorites, city, aqi, locationName,
                   pollutants, loading, forecast, hourlyData, inflight, started,
                   run>>

\* The reset button.
Reset ==
    /\ phase = "mounted"
    /\ city' = JStr(<<>>)
    /\ aqi' = JNull
    /\ locationName' = JStr(<<>>)
    /\ forecast' = NoForecast
    /\ hourlyData' = <<>>
    /\ pollutants' = NoPollutants
    /\ error' = JNull
    /\ last' = Ran("reset")
    /\ UNCHANGED <<phase, storage, favorites, loading, inflight, started, run>>

(***************************************************************************)
(* Inputs of the model                                                     *)
(***************************************************************************)
Obj1(k, v) == JObj(<<k>>, <<v>>)

Obj2(k1, v1, k2, v2) == JObj(<<k1, k2>>, <<v1, v2>>)

tOk == <<"o", "k">>

Day1 == JStr(<<"2", "0", "2", "4", "-", "0", "1", "-", "0", "1">>)

Day2 == JStr(<<"2", "0", "2", "4", "-", "0", "1", "-", "0", "2">>)

DayAvg(day, avg) == Obj2(kDay, day, kAvg, JNum(avg))

\* {"status": "ok", "data": d}
OkJson(d) == [net |-> "json", json |-> Obj2(kStatus, JStr(tOk), kData, d)]

\* A station's data: the index raw, the city name and the daily forecast.
Station(raw, name, daily) ==
    JObj(<<kAqi, kCity, kIaqi, kForecast>>,
         <<raw, Obj1(kName, JStr(name)), Obj1(kPm25, Obj1(kV, JNum(7))),
           Obj1(kDaily, daily)>>)

\* The provider's responses in the component's specification: fetch rejects,
\* the status "error", a body without data, two stations with a forecast, a
\* station without a city, and a station whose city name is a list.
Responses ==
    { [net |-> "reject", json |-> JUndefined],
      [net |-> "json", json |-> Obj2(kStatus, JStr(tError), kData,
                                     JStr(<<"U", "n", "k", "n", "o", "w", "n">>))],
      [net |-> "json", json |-> Obj1(kStatus, JStr(tOk))],
      OkJson(Station(JNum(42), <<"a">>,
                     Obj2(kPm25, JArr(<<DayAvg(Day1, 1), DayAvg(Day2, 2)>>),
                          kO3, JArr(<<DayAvg(Day1, 3)>>)))),
      OkJson(Station(JNum(160), <<"A">>, Obj1(kPm25, JArr(<<JNull>>)))),
      OkJson(Obj1(kAqi, JDec(505, 1))),
      OkJson(Obj2(kAqi, JStr(<<"0", "x", "1", "0">>),
                  kCity, Obj1(kName, JArr(<<JStr(<<"x">>)>>)))) }

\* The texts typed into the search box.
CityInputs == {<<" ">>, <<" ", "a">>}

Q(t) == <<QUOTE>> \o t \o <<QUOTE>>

\* The items the storage may hold at start: none, the empty text, a text
\* that is no JSON, and JSON texts of lists (of names, of half a surrogate
\* pair, of a list, of an object) and of other values.
StoredItems ==
    { NoItem,
      Item(<<>>),
      Item(<<"[", QUOTE, "a">>),
      Item(<<"[", " ">> \o Q(<<"a">>) \o <<" ", ",">> \o Q(<<"a">>) \o <<"]">>),
      Item(<<"[">> \o Q(<<BACKSLASH, QUOTE>>) \o <<"]">>),
      Item(<<"[">> \o Q(<<BACKSLASH, "u", "D", "8", "0", "0">>) \o <<"]">>),
      Item(<<"[", "[">> \o Q(<<"x">>) \o <<"]", "]">>),
      Item(<<"[", "{", "}", "]">>),
      Item(<<"5">>),
      Item(<<"n", "u", "l", "l">>),
      Item(<<"{", "}">>),
      Item(Q(<<>>)),
      Item(Q(<<"a">>)) }

(***************************************************************************)
(* The component's specification                                           *)
(***************************************************************************)
Init == \E item \in StoredItems, readOk \in BOOLEAN : Constructed(item, readOk)

Next ==
    \/ Mount
    \/ ToggleClick
    \/ RemoveClick
    \/ \E t \in CityInputs : SetCity(t)
    \/ started < MaxFetches /\ onSearch
    \/ started < MaxFetches /\ loadFavorite
    \/ started < MaxFetches /\ fetchByGeo
    \/ \E req \in inflight : FetchResponded(req)
    \/ \E req \in inflight, resp \in Responses : FetchComplete(req, resp)
    \/ GeoError
    \/ Reset

Spec == Init /\ [][Next]_vars

(***************************************************************************)
(* toggleFavorite and removeFavorite applied to given lists                *)
(***************************************************************************)
\* Bound: the operations of one run, except the run that adds ChainNames
\* in order to the empty list.
MaxOps == 2

\* Eleven distinct names, added in this order.
ChainNames ==
    << <<"b">>, <<"c">>, <<"d">>, <<"e">>, <<"f">>, <<"g">>, <<"h">>, <<"i">>,
       <<"j">>, <<"k">>, <<"l">> >>

Names(ts) == JArr([i \in 1..Len(ts) |-> JStr(ts[i])])

\* The names the operations of a run are applied to.
FavNames == {JStr(<<"a">>), JStr(<<"A">>), JStr(<<"b">>)}

\* The favorites lists a run starts from: short lists, lists with a name
\* twice, lists of 9, 10 and 11 names.
FavInputs ==
    { Names(<<>>),
      Names(<< <<"a">> >>),
      Names(<< <<"A">>, <<"a">> >>),
      Names(<< <<"a">>, <<"a">> >>),
      Names(<< <<"a">>, <<"b">>, <<"a">> >>),
      Names(SubSeq(ChainNames, 2, 10)),
      Names(SubSeq(ChainNames, 1, 10)),
      Names(SubSeq(ChainNames, 2, 10) \o << <<"a">> >>),
      Names(ChainNames) }

NoRun == [n |-> 0, inOrder |-> FALSE, op |-> "none", name |-> JUndefined,
          before |-> JUndefined, op2 |-> "none", name2 |-> JUndefined,
          before2 |-> JUndefined]

\* The mounted component with favorites fav, saved.
Mounted(fav) ==
    /\ phase = "mounted"
    /\ storage = Item(JSONStringify(fav))
    /\ favorites = fav
    /\ city = JStr(<<>>)
    /\ aqi = JNull
    /\ locationName = JStr(<<>>)
    /\ pollutants = NoPollutants
    /\ loading = FALSE
    /\ error = JNull
    /\ forecast = NoForecast
    /\ hourlyData = <<>>
    /\ inflight = {}
    /\ started = 0
    /\ last = Ran("mount")
    /\ run = [NoRun EXCEPT !.inOrder = (fav = Names(<<>>))]

InitFav == \E fav \in FavInputs : Mounted(fav)

MayApply(op, name) ==
    \/ run.n < MaxOps /\ name \in FavNames
    \/ /\ op = "toggle" /\ run.inOrder /\ run.n < Len(ChainNames)
       /\ name = JStr(ChainNames[run.n + 1])

Applied(op, name) ==
    [n |-> run.n + 1,
     inOrder |-> /\ op = "toggle" /\ run.inOrder /\ run.n < Len(ChainNames)
                 /\ name = JStr(ChainNames[run.n + 1]),
     op |-> op, name |-> name, before |-> favorites,
     op2 |-> run.op, name2 |-> run.name, before2 |-> run.before]

ApplyToggle ==
    \E name \in FavNames \cup {JStr(ChainNames[i]) : i \in 1..Len(ChainNames)} :
        /\ MayApply("toggle", name)
        /\ toggleFavorite(name, 0)
        /\ run' = Applied("toggle", name)

ApplyRemove ==
    \E name \in FavNames :
        /\ MayApply("remove", name)
        /\ removeFavorite(name, 0)
        /\ run' = Applied("remove", name)

NextFav == ApplyToggle \/ ApplyRemove

SpecFav == InitFav /\ [][NextFav]_vars

(***************************************************************************)
(* Properties of toggleFavorite and removeFavorite                         *)
(***************************************************************************)
Occurs(list, name) == \E i \in 1..Len(list.items) : list.items[i] = name

Members(list) == {list.items[i] : i \in 1..Len(list.items)}

Count(list, x) == Cardinality({i \in 1..Len(list.items) : list.items[i] = x})

RECURSIVE IsSubsequence(_, _)
\* Whether s comes from t by dropping entries, the others kept in order.
IsSubsequence(s, t) ==
    IF s = <<>> THEN TRUE
    ELSE IF t = <<>> THEN FALSE
    ELSE IF Head(s) = Head(t) THEN IsSubsequence(Tail(s), Tail(t))
    ELSE IsSubsequence(s, Tail(t))

\* The names of ChainNames, last added first, without the first added.
TenMostRecent ==
    Names(<< <<"l">>, <<"k">>, <<"j">>, <<"i">>, <<"h">>, <<"g">>, <<"f">>,
             <<"e">>, <<"d">>, <<"c">> >>)

\* C2: toggleFavorite(name) on a list without name gives name followed by
\* the previous list in its order, cut to its first 10 entries; and adding
\* the 11 names of ChainNames in order to the empty list leaves the 10 added
\* last, the last added first.
ToggleAddsAtFront ==
    /\ (run.op = "toggle" /\ ~Occurs(run.before, run.name)) =>
          /\ IsArray(favorites)
          /\ Len(favorites.items) =
                 (IF Len(run.before.items) + 1 < 10
                  THEN Len(run.before.items) + 1 ELSE 10)
          /\ favorites.items[1] = run.name
          /\ \A i \in 2..Len(favorites.items) :
                 favorites.items[i] = run.before.items[i - 1]
    /\ (run.inOrder /\ run.n = 11) => favorites = TenMostRecent

\* The eleventh name has been added to the ten added before it.
ToggleAddsAtFrontWitness ==
    /\ run.inOrder /\ run.n = 11
    /\ run.op = "toggle" /\ Len(run.before.items) = 10

DoubleToggle ==
    /\ run.op = "toggle" /\ run.op2 = "toggle"
    /\ run.name = run.name2

\* C3 as stated: two toggles of one name in a row restore the set of names.
DoubleToggleRestoresMembership ==
    DoubleToggle => Members(favorites) = Members(run.before2)

\* C3, amended: two toggles of one name in a row restore the set of names
\* of a list that holds at most 9 entries other than name.
DoubleToggleBelowCap ==
    (/\ DoubleToggle
     /\ Len(run.before2.items) - Count(run.before2, run.name) <= 9) =>
        Members(favorites) = Members(run.before2)

\* A name toggled twice on a list of exactly 9 other entries.
DoubleToggleWitness ==
    /\ DoubleToggle
    /\ Len(run.before2.items) - Count(run.before2, run.name) = 9

\* C7: removeFavorite(name) leaves no occurrence of name, keeps every other
\* entry, as often as before and in the previous order, and changes nothing
\* when name is absent.
RemoveDropsOnlyTheName ==
    run.op = "remove" =>
        /\ IsArray(favorites)
        /\ ~Occurs(favorites, run.name)
        /\ IsSubsequence(favorites.items, run.before.items)
        /\ \A x \in Members(run.before) \ {run.name} :
               Count(favorites, x) = Count(run.before, x)
        /\ ~Occurs(run.before, run.name) => favorites = run.before

\* A name removed from a list that held it twice around another entry.
RemoveWitness ==
    /\ run.op = "remove"
    /\ Count(run.before, run.name) = 2
    /\ Len(favorites.items) = 1

(***************************************************************************)
(* The index: one fetch of a station whose data.aqi is any value           *)
(***************************************************************************)
\* Bounds: the numeric indices run from -BelowZero to MaxIndex.
BelowZero == 5

MaxIndex == 405

IndexRange == (0 - BelowZero)..MaxIndex

\* The values of data.aqi: the integers of IndexRange, decimals between
\* them, the infinities (a numeral past the doubles), strings that are and
\* are not numerals, null, booleans, arrays and an object.
RawAqi ==
    {JNum(v) : v \in IndexRange}
      \cup { JDec(505, 1), JDec(1005, 1), JDec(3001, 1), JDec(0 - 5, 1),
             JInf(1), JInf(0 - 1) }
      \cup { JStr(<<"-">>), JStr(<<"a", "b", "c">>), JStr(<<"4", "2">>),
             JStr(<<"-", "5">>), JStr(<<"0">>), JStr(<<>>), JStr(<<" ">>),
             JStr(<<"1", "2", "a">>), JStr(<<"5", "0", ".", "5">>),
             JStr(<<"1", "e", "3">>), JStr(<<"0", "x", "1", "0">>),
             JStr(<<"-", "0", "x", "1", "0">>), JStr(<<"\f", "5">>),
             JStr(<<"-", "I", "n", "f", "i", "n", "i", "t", "y">>),
             JStr(<<"2", "e", "-", "3", "2", "4">>),
             JStr(<<"3", "e", "-", "3", "2", "4">>),
             JNull, JBool(TRUE), JBool(FALSE),
             JArr(<<>>), JArr(<<JNum(7)>>), JArr(<<JNum(1), JNum(2)>>),
             JArr(<<JArr(<<JNum(7)>>)>>), JArr(<<JArr(<<>>)>>),
             JObj(<<>>, <<>>),
             JObj(<<<<"v", "a", "l", "u", "e", "O", "f">>>>, <<JNum(1)>>),
             JObj(<<kToString>>, <<JNum(1)>>),
             JObj(<<kToString, kAvg>>, <<JStr(<<"4", "2">>), JNum(7)>>),
             JArr(<<JObj(<<kToString>>, <<JNum(1)>>)>>),
             JArr(<<JNull, JArr(<<JObj(<<kToString>>, <<JNull>>)>>)>>) }

\* The responses {"status": "ok", "data": {"aqi": raw}}, and the one whose
\* data has no aqi.
AqiResponses ==
    {OkJson(Obj1(kAqi, raw)) : raw \in RawAqi} \cup {OkJson(JObj(<<>>, <<>>))}

InitIdx == Constructed(NoItem, TRUE)

NextIdx ==
    \/ Mount
    \/ started = 0 /\ fetchByGeo
    \/ \E req \in inflight : FetchResponded(req)
    \/ \E req \in inflight, resp \in AqiResponses : FetchComplete(req, resp)

SpecIdx == InitIdx /\ [][NextIdx]_vars

\* The data.aqi of the response the last fetch completed with.
LastRaw == Get(Get(last.resp.json, kData), kAqi)

\* The last handler was a fetch that ran to its end on a station's data.
FetchedIndex ==
    /\ last.op = "fetchDone"
    /\ last.resp.net = "json"
    /\ ProcessResponse(last.resp, last.query).stage = "done"

\* The bands of the classifier: inclusive upper bound and tier, ascending;
\* above the last bound the tier is Hazardous.
Bands ==
    << <<50, "Good">>, <<100, "Moderate">>,
       <<150, "Unhealthy for Sensitive Groups">>, <<200, "Unhealthy">>,
       <<300, "Very Unhealthy">> >>

TierOf(v) ==
    IF \E b \in 1..Len(Bands) : v <= Bands[b][1]
    THEN Bands[CHOOSE b \in 1..Len(Bands) :
                  /\ v <= Bands[b][1]
                  /\ \A c \in 1..(b - 1) : v > Bands[c][1]][2]
    ELSE "Hazardous"

\* The least integer not below the number v: v is at most an integer bound
\* exactly when Up(v) is.
Up(v) ==
    IF v.kind = "infinity" THEN v.num * (Bands[Len(Bands)][1] + 1)
    ELSE Ceiling(v.num, v.scale)

\* C8: the tier of a numeric index is the one of its band, the upper bounds
\* 50, 100, 150, 200 and 300 inclusive, and the mask flag is false exactly
\* for Good and Moderate.
ClassifierFollowsBands ==
    aqi.kind \in {"number", "infinity"} =>
        /\ Advice(aqi).present
        /\ Advice(aqi).level = TierOf(Up(aqi))
        /\ Advice(aqi).mask = (Advice(aqi).level \notin {"Good", "Moderate"})
        /\ aqi \in {JNum(v) : v \in 0..50} => Advice(aqi).level = "Good"
        /\ aqi = JNum(51) => Advice(aqi).level = "Moderate"
        /\ aqi = JNum(75) => Advice(aqi).level = "Moderate"
        /\ aqi \in {JNum(v) : v \in 151..200} => Advice(aqi).level = "Unhealthy"
        /\ aqi = JNum(250) => Advice(aqi).level = "Very Unhealthy"

\* An index on the upper bound of the first band has been fetched.
ClassifierWitness == FetchedIndex /\ aqi = JNum(50) /\ LastRaw = JNum(50)

\* The estimator's steps: inclusive upper bound and count; above the last
\* bound the count is 13.
Steps == << <<50, 0>>, <<100, 2>>, <<200, 5>>, <<300, 8>> >>

StepOf(v) ==
    IF \E b \in 1..Len(Steps) : v <= Steps[b][1]
    THEN Steps[CHOOSE b \in 1..Len(Steps) :
                  /\ v <= Steps[b][1]
                  /\ \A c \in 1..(b - 1) : v > Steps[c][1]][2]
    ELSE 13

\* The indices after which the estimate, and the tier, change.
EstimatorThresholds ==
    {t \in IndexRange :
        getCigaretteEquivalent(JNum(t)) # getCigaretteEquivalent(JNum(t + 1))}

ClassifierThresholds ==
    {t \in IndexRange :
        getHealthAdvice(JNum(t)).level # getHealthAdvice(JNum(t + 1)).level}

\* C9: the estimate is 0 up to 50, 2 up to 100, 5 up to 200, 8 up to 300 and
\* 13 above, and 0 for a null index; it changes only where the tier changes.
EstimatorFollowsSteps ==
    /\ aqi.kind = "null" => getCigaretteEquivalent(aqi) = 0
    /\ aqi.kind \in {"number", "infinity"} =>
          /\ getCigaretteEquivalent(aqi) = StepOf(Up(aqi))
          /\ getHealthAdvice(aqi).level = getHealthAdvice(JNum(Up(aqi) + 1)).level
                => getCigaretteEquivalent(aqi) = getCigaretteEquivalent(JNum(Up(aqi) + 1))
    /\ EstimatorThresholds \subseteq ClassifierThresholds

\* The first index of the last step has been fetched.
EstimatorWitness == FetchedIndex /\ aqi = JNum(301) /\ LastRaw = JNum(301)

\* raw is no number and Number(raw) throws: raw has no primitive value.
Unreadable(raw) == ~IsNumber(raw) /\ ToNumber(raw).kind = "throw"

\* raw is no number and does not read as one: Number(raw) is NaN, or throws.
NonNumeric(raw) == ~IsNumber(raw) /\ ToNumber(raw).kind \in {"nan", "throw"}

\* The last fetch completed with a response of a status other than "error"
\* whose data is an object: fetchAndSet came to read its index.
ReceivedIndex ==
    /\ last.op = "fetchDone"
    /\ last.resp.net = "json"
    /\ ~StrictEquals(Get(last.resp.json, kStatus), JStr(tError))
    /\ Get(last.resp.json, kData).kind = "object"

\* raw is a number below zero, or reads as one.
Negative(raw) ==
    ToNumber(raw).kind \in {"number", "infinity"} /\ ToNumber(raw).num < 0

NoReading ==
    /\ aqi = JNull
    /\ Advice(aqi) = NoAdvice
    /\ getCigaretteEquivalent(aqi) = 0

\* C10 as stated: after the fetch of a non-numeric or negative index the
\* fetch has not failed (no error is set), the stored index is null, the
\* advice the placeholder and the estimate 0.
InvalidIndexIsNoReading ==
    (ReceivedIndex /\ (NonNumeric(LastRaw) \/ Negative(LastRaw))) =>
        (NoReading /\ error = JNull)

\* C10, amended: after the fetch of a non-numeric index the stored index is
\* null, the advice the placeholder and the estimate 0; the fetch does not
\* fail for it where Number() reads the index as NaN, and fails in its catch
\* with the TypeError where Number() throws.  A negative index is stored as
\* the number it is, its tier is Good and its estimate 0, and the fetch
\* does not fail.
InvalidIndexNormalized ==
    ReceivedIndex =>
        /\ NonNumeric(LastRaw) =>
              /\ NoReading
              /\ error = IF Unreadable(LastRaw) THEN Msg("TypeError") ELSE JNull
              /\ FetchedIndex <=> ~Unreadable(LastRaw)
        /\ Negative(LastRaw) =>
              /\ FetchedIndex
              /\ error = JNull
              /\ aqi = ToNumber(LastRaw)
              /\ Advice(aqi).level = "Good"
              /\ getCigaretteEquivalent(aqi) = 0

\* The provider's "-" has been fetched.
InvalidIndexWitness ==
    /\ ReceivedIndex
    /\ FetchedIndex
    /\ LastRaw = JStr(<<"-">>)
    /\ aqi = JNull
    /\ error = JNull

(***************************************************************************)
(* Properties of the stored favorites                                      *)
(***************************************************************************)
\* C1: the favorites list of the mounted component holds no name twice and
\* at most 10 entries.
FavoritesUniqueAndCapped ==
    (phase = "mounted" /\ IsArray(favorites)) =>
        /\ \A i, j \in 1..Len(favorites.items) :
               i # j => favorites.items[i] # favorites.items[j]
        /\ Len(favorites.items) <= 10

\* The list fav as JSON.parse makes it: its items are new objects.
Plain(fav) ==
    IF ~IsArray(fav) THEN fav
    ELSE [fav EXCEPT !.items = [i \in 1..Len(fav.items) |->
                                   [fav.items[i] EXCEPT !.ref = 0]]]

\* A favorites handler ran to its end and its storage write returned.
Saved ==
    /\ last.op \in {"toggle", "remove"}
    /\ ~last.threw
    /\ last.ok

\* C4: after a favorites handler whose storage write returned, the stored
\* item parses to the favorites in memory, and loading it yields them.
SavedListLoadsBack ==
    Saved =>
        /\ storage.present
        /\ JSONParse(storage.text) = [ok |-> TRUE, val |-> Plain(favorites)]
        /\ LoadFavorites(storage, TRUE) =
               [raised |-> FALSE, value |-> Plain(favorites)]

\* A name has been added in front of the name " and saved.
SavedListWitness ==
    /\ Saved /\ last.op = "toggle"
    /\ IsArray(favorites) /\ Len(favorites.items) = 2
    /\ favorites.items[2] = JStr(<<QUOTE>>)

\* C5: the component mounts on what the initializer loaded, a list of
\* strings, the empty list when the item is absent, empty or no JSON text
\* (after a mount whose write failed the item is still the one loaded).
LoadedIsListOfNames ==
    last.op = "mount" =>
        /\ phase = "mounted"
        /\ IsArray(favorites)
        /\ \A i \in 1..Len(favorites.items) : IsString(favorites.items[i])
        /\ (~last.ok /\ (~storage.present \/ ~JSONParse(storage.text).ok)) =>
               favorites = JArr(<<>>)

\* The favorites a failed write leaves behind, given the state before.
AfterFailedWrite(op, name, before) ==
    IF op = "toggle"
    THEN ToggleUpdater(before, name, ItemThatIs(before, name)).value
    ELSE RemoveUpdater(before, name, ItemThatIs(before, name)).value

\* C6: a favorites handler whose storage write throws leaves the component
\* mounted with the handler's result as favorites, and changes neither the
\* error nor any other part of the view, nor the stored item.
WriteFailureSwallowed ==
    [][(last'.op \in {"toggle", "remove"} /\ ~last'.ok) =>
          /\ phase' = "mounted"
          /\ favorites' = AfterFailedWrite(last'.op, last'.name, favorites)
          /\ error' = error
          /\ storage' = storage
          /\ UNCHANGED <<city, aqi, locationName, pollutants, loading,
                         forecast, hourlyData, inflight>>]_vars

\* A toggle whose write threw: the stored item is not the list in memory.
WriteFailureWitness ==
    /\ last.op = "toggle" /\ ~last.ok
    /\ phase = "mounted"
    /\ storage # Item(JSONStringify(favorites))

(***************************************************************************)
(* Fetches: up to MaxOverlap fetchAndSet calls, started by the mount       *)
(* effect's position callback and by searches, their responses arriving in *)
(* any order.  run lists the calls that completed, in the order they did.  *)
(***************************************************************************)
\* Bound: the fetchAndSet calls of one run.
MaxOverlap == 2

\* {"status": "error", "data": d}
StatusError(d) ==
    [net |-> "json", json |-> Obj2(kStatus, JStr(tError), kData, d)]

\* The provider's responses: fetch rejects, the status is not OK, the body is
\* no JSON, the body is null, the status "error" with a message, with an
\* empty message, with an object and without data, two stations with a
\* daily forecast, and a station whose forecast holds a null entry.
FetchResponses ==
    { [net |-> "reject", json |-> JUndefined],
      [net |-> "notok", json |-> JUndefined],
      [net |-> "badjson", json |-> JUndefined],
      [net |-> "json", json |-> JNull],
      StatusError(JStr(<<"U", "n", "k", "n", "o", "w", "n">>)),
      StatusError(JStr(<<>>)),
      StatusError(JObj(<<>>, <<>>)),
      [net |-> "json", json |-> Obj1(kStatus, JStr(tError))],
      OkJson(Station(JNum(42), <<"a">>,
                     Obj2(kPm25, JArr(<<DayAvg(Day1, 1), DayAvg(Day2, 2)>>),
                          kO3, JArr(<<DayAvg(Day1, 3)>>)))),
      OkJson(Station(JNum(7), <<"b">>, Obj1(kO3, JArr(<<DayAvg(Day2, 4)>>)))),
      OkJson(Station(JNum(160), <<"A">>, Obj1(kPm25, JArr(<<JNull>>)))) }

InitFetch ==
    /\ Initialized(NoItem, TRUE)
    /\ run = <<>>

\* The response of call req arrives.
Arrive(req, resp) ==
    /\ FetchSettled(req, resp)
    /\ run' = Append(run, [id |-> req.id, query |-> req.query, resp |-> resp])

NextFetch ==
    \/ Mount
    \/ started < MaxOverlap /\ fetchByGeo
    \/ \E t \in CityInputs : SetCity(t)
    \/ started < MaxOverlap /\ onSearch
    \/ \E req \in inflight : FetchResponded(req)
    \/ \E req \in inflight, resp \in FetchResponses : Arrive(req, resp)

SpecFetch == InitFetch /\ [][NextFetch]_vars

\* What the call that completed last made of its response.
LastOutcome == ProcessResponse(last.resp, last.query)

\* The last handler was the end of a fetchAndSet call whose provider call
\* failed: fetch rejected, the status was not OK, the provider answered
\* "error", or the response was malformed.
FailedFetchEnded ==
    /\ last.op = "fetchDone"
    /\ LastOutcome.stage \in {"threwEarly", "apiError", "threwLate"}

\* Whether the toast {error && <div>{error}</div>} shows a message, for an
\* error that is a primitive.
Visible(err) ==
    \/ err.kind = "string" /\ err.text # <<>>
    \/ err.kind = "number" /\ err.num # 0
    \/ err.kind = "infinity"

\* C11: a fetchAndSet call whose provider call failed ends with the
\* component mounted (nothing was thrown), loading false and an error
\* message on screen.
FailedFetchShowsError ==
    FailedFetchEnded =>
        /\ phase = "mounted"
        /\ loading = FALSE
        /\ Visible(error)

(***************************************************************************)
(* The forecast: one fetch of a station whose forecast.daily holds lists   *)
(* of days under the keys pm25 and o3                                      *)
(***************************************************************************)
\* Bound: the days of a payload are the days 1..MaxDay of one month.
MaxDay == 4

\* The identifier "2024-01-0n" of day n.
DayId(n) == JStr(<<"2", "0", "2", "4", "-", "0", "1", "-", "0">> \o NatToText(n))

\* The entry of day n; the entry of day 0 is an entry without a day.
DayEntry(n) == IF n = 0 THEN Obj1(kAvg, JNum(0)) ELSE DayAvg(DayId(n), n)

\* The lists of days of a payload: up to two days in any order, repeated or
\* not, and all days in ascending and in descending order.
DayLists ==
    {<<>>} \cup {<<a>> : a \in 0..MaxDay} \cup {<<a, b>> : a, b \in 0..MaxDay}
      \cup {[i \in 1..MaxDay |-> i], [i \in 1..MaxDay |-> MaxDay + 1 - i]}

\* What a key of forecast.daily holds: a list of entries, or a number.
DailyValues ==
    {JArr([i \in 1..Len(l) |-> DayEntry(l[i])]) : l \in DayLists} \cup {JNum(0)}

\* Days in other forms: a date with a time, a form left to the host, a text
\* that is no date, and a date past the last time value.
OtherDays ==
    { JStr(<<"2", "0", "2", "4", "-", "0", "1", "-", "0", "1",
             "T", "0", "0", ":", "0", "0", ":", "0", "0", "Z">>),
      JStr(<<"2", "0", "2", "4", "/", "0", "1", "/", "0", "1">>),
      JStr(<<"J", "a", "n">>),
      JStr(<<"+", "2", "7", "5", "7", "6", "0", "-", "0", "9",
             "-", "1", "4">>) }

\* The responses: a station with forecast.daily of one or two keys, with an
\* empty forecast.daily, with an empty forecast, and without a forecast;
\* and a station with one day in another form.
ForecastResponses ==
    {OkJson(Station(JNum(42), <<"a">>, Obj2(kPm25, a, kO3, b))) :
        a, b \in DailyValues}
      \cup {OkJson(Station(JNum(42), <<"a">>, Obj1(kO3, a))) : a \in DailyValues}
      \cup { OkJson(Station(JNum(42), <<"a">>, JObj(<<>>, <<>>))),
             OkJson(Obj2(kAqi, JNum(42), kForecast, JObj(<<>>, <<>>))),
             OkJson(Obj1(kAqi, JNum(42))) }
      \cup {OkJson(Station(JNum(42), <<"a">>, Obj1(kPm25, JArr(<<DayAvg(day, 1)>>)))) :
               day \in OtherDays}

InitForecast == Constructed(NoItem, TRUE)

NextForecast ==
    \/ Mount
    \/ started = 0 /\ fetchByGeo
    \/ \E req \in inflight : FetchResponded(req)
    \/ \E req \in inflight, resp \in ForecastResponses : FetchComplete(req, resp)

SpecForecast == InitForecast /\ [][NextForecast]_vars

\* The forecast.daily of the response the last fetch completed with.
LastDaily == OptGet(OptGet(Get(last.resp.json, kData), kForecast), kDaily)

\* How many entries the lists of LastDaily hold.
DailyEntries ==
    IF LastDaily.kind # "object" THEN 0
    ELSE Cardinality({<<k, i>> \in (1..Len(LastDaily.keys)) \X (1..(MaxDay + 1)) :
                         /\ IsArray(LastDaily.items[k])
                         /\ i <= Len(LastDaily.items[k].items)})

\* C12: the forecast a fetch leaves holds at most 3 entries, no two of them
\* of the same day identifier, and it is null exactly when it holds no
\* entry; a payload without entries leaves it null, and a payload with
\* entries that is read to its end leaves it not null.
ForecastAtMostThreeDays ==
    last.op = "fetchDone" =>
        /\ Len(forecast.days) <= 3
        /\ \A i, j \in 1..Len(forecast.days) :
               i # j => forecast.days[i].day # forecast.days[j].day
        /\ forecast.isNull <=> (forecast.days = <<>>)
        /\ DailyEntries = 0 => forecast.isNull
        /\ (DailyEntries > 0 /\ LastOutcome.stage = "done") => ~forecast.isNull

\* A payload of more than three days, the first of them given three times,
\* has left a forecast of three days.
ForecastWitness ==
    /\ last.op = "fetchDone"
    /\ LastDaily = Obj2(kPm25, JArr(<<DayEntry(1), DayEntry(1)>>),
                        kO3, JArr([i \in 1..MaxDay |-> DayEntry(i)]))
    /\ ~forecast.isNull
    /\ Len(forecast.days) = 3
    /\ forecast.days[3].day = DayId(3)

(***************************************************************************)
(* Properties of overlapping fetches                                       *)
(***************************************************************************)
\* Every call of a run of at least two calls has completed.
AllArrived ==
    /\ phase = "mounted"
    /\ started >= 2
    /\ inflight = {}
    /\ Len(run) = started

\* What the call issued last made of its response.
NewestOutcome ==
    LET r == run[CHOOSE i \in 1..Len(run) : run[i].id = started]
    IN  ProcessResponse(r.resp, r.query)

\* C13: once every call has completed, the index, the location name, the
\* pollutants and the forecast on screen are those of the call issued last,
\* where that call read a station's data to its end.
ShowsNewestQuery ==
    (AllArrived /\ NewestOutcome.stage = "done") =>
        /\ aqi = NewestOutcome.aqi
        /\ locationName = NewestOutcome.loc
        /\ pollutants = NewestOutcome.pollutants
        /\ forecast = NewestOutcome.forecast

\* C14: the loading flag is true while a fetchAndSet call has started and
\* not completed, and false when none is in flight.
LoadingWhileInFlight ==
    phase = "mounted" => (loading <=> inflight # {})

\* C15: a single fetchAndSet call that set the error leaves the index null,
\* the pollutants empty and the forecast null.
ErrorExcludesReading ==
    (/\ started = 1
     /\ last.op = "fetchDone"
     /\ LastOutcome.stage # "done"
     /\ error # JNull) =>
        /\ aqi = JNull
        /\ pollutants = NoPollutants
        /\ forecast = NoForecast
====
